---- MODULE Spec2Model ----
(***************************************************************************)
(* SafeSheet: SQL impact and risk analysis.                                *)
(*                                                                         *)
(* The model follows one SafetyReport object from construction through     *)
(* generate(), together with the DryRunEngine it owns (which callers also  *)
(* drive directly through simulate() and close()).                         *)
(*                                                                         *)
(* The SQL parsing library (sqlglot), the in-memory engine (DuckDB) and    *)
(* the LLM services are external.  A parsed statement is a record that     *)
(* describes the AST the library returns; the engine is a map from table   *)
(* names to row counts that answers each statement with rows or with one   *)
(* of its error messages; an LLM call answers with a script or an error.   *)
(*                                                                         *)
(* Python text is a sequence of parts (an f-string keeps its pieces), so   *)
(* "the message names table t" is "t is one of the parts".                 *)
(***************************************************************************)
EXTENDS Integers, Sequences, FiniteSets, TLC

\* ------------------------------------------------------------------ bounds
\* Most table references one statement carries.
MaxTables == 4
\* Most rows one engine table holds.
MaxRows == 2

\* ------------------------------------------------------------- Python values
\* None, for a text-valued field.
None == <<"<None>">>
\* A key that the dictionary does not hold.
Absent == <<"<absent>">>

Min(a, b) == IF a < b THEN a ELSE b

Range(s) == {s[i] : i \in 1..Len(s)}

\* list(set(xs)) yields the elements in the set's iteration order, which
\* depends on the process's string hashing: order k is rotation k.
Rotate(s, k) == [i \in 1..Len(s) |-> s[((i - 1 + k) % Len(s)) + 1]]

\* ---------------------------------------------------------------- SQL parser
\* Table names of the enumerated statements; "order" is a reserved word, so
\* it is a table name only when quoted.
NameOrder == <<"users", "orders", "order", "logs", "audit">>
Names == Range(NameOrder)
Reserved(n) == n = "order"

\* Table.name of the i-th exp.Table that find_all yields.
FoundLists ==
    {SubSeq(NameOrder, 1, k) : k \in 0..Min(MaxTables, Len(NameOrder))}
    \cup {<<n>> : n \in {m \in Names : Reserved(m)}}

\* type(self.parsed).__name__ for the root node.
RootClasses ==
    {"Select", "Update", "Delete", "Insert", "Create", "Alter", "Drop",
     "TruncateTable", "Command", "Union"}

\* str.upper() of a class name, as its characters.
upper(cls) ==
    CASE cls = "Select" -> <<"S","E","L","E","C","T">>
      [] cls = "Update" -> <<"U","P","D","A","T","E">>
      [] cls = "Delete" -> <<"D","E","L","E","T","E">>
      [] cls = "Insert" -> <<"I","N","S","E","R","T">>
      [] cls = "Create" -> <<"C","R","E","A","T","E">>
      [] cls = "Alter" -> <<"A","L","T","E","R">>
      [] cls = "Drop" -> <<"D","R","O","P">>
      [] cls = "TruncateTable" -> <<"T","R","U","N","C","A","T","E","T","A","B","L","E">>
      [] cls = "Command" -> <<"C","O","M","M","A","N","D">>
      [] cls = "Union" -> <<"U","N","I","O","N">>

\* The characters of a string constant of the source.
chars(s) ==
    CASE s = "SELECT" -> <<"S","E","L","E","C","T">>
      [] s = "UPDATE" -> <<"U","P","D","A","T","E">>
      [] s = "DELETE" -> <<"D","E","L","E","T","E">>
      [] s = "INSERT" -> <<"I","N","S","E","R","T">>
      [] s = "CREATE" -> <<"C","R","E","A","T","E">>
      [] s = "ALTER" -> <<"A","L","T","E","R">>
      [] s = "DROP" -> <<"D","R","O","P">>
      [] s = "TRUNCATE" -> <<"T","R","U","N","C","A","T","E">>

\* The string that a character sequence spells.
str(cs) ==
    CASE cs = <<"C","O","M","M","A","N","D">> -> "COMMAND"
      [] cs = <<"U","N","I","O","N">> -> "UNION"
      [] cs = <<"T","R","U","N","C","A","T","E","T","A","B","L","E">> -> "TRUNCATETABLE"
      [] OTHER -> "?"

\* Python's `a in b` on strings.
IsSubstring(a, b) ==
    \E i \in 0..(Len(b) - Len(a)) : SubSeq(b, i + 1, i + Len(a)) = a

type_mapping ==
    <<"SELECT", "UPDATE", "DELETE", "INSERT", "CREATE", "ALTER", "DROP", "TRUNCATE">>

\* The SQL text of the enumerated ALTER statements, as the words that
\* follow `ALTER TABLE <name>` in sql.upper().
ReferencingText == <<"ADD", "CONSTRAINT", "PK", "UNIQUE", "(AGE)">>
AlterTexts ==
    {<<"ADD", "COLUMN", "AGE", "INT">>,
     <<"ADD", "AGE", "INT">>,
     <<"ADD", "COLUMN", "DROPPED", "INT">>,
     <<"DROP", "COLUMN", "AGE">>,
     <<"RENAME", "COLUMN", "AGE", "TO", "YEARS">>,
     <<"RENAME", "TO", "CLIENTS">>,
     <<"ALTER", "COLUMN", "AGE", "TYPE", "INT">>,
     ReferencingText,
     <<"DROP", "CONSTRAINT", "PK">>,
     <<"SET", "LOGGED">>,
     <<"ADD", "COLUMN", "AGE", "INT", ",", "DROP", "COLUMN", "EMAIL">>}

\* A parsed statement: cls the root class, found the table names in
\* traversal order, order the rotation list(set(...)) applies to them, this
\* the class of the root's `this` argument, where whether an exp.Where node
\* exists, cols the column names of the SET assignments (UPDATE) or the
\* exp.Column nodes below the INSERT, fault how the engine answers the
\* statement once its tables resolve, text the words of an ALTER's SQL text
\* after `ALTER TABLE <name>`.
WellFormed(p) ==
    /\ p.order < (IF p.found = <<>> THEN 1 ELSE Len(p.found))
    /\ IF p.cls = "Alter"
       THEN Len(p.found) > 1 => p.text = ReferencingText
       ELSE p.text = <<>>
    /\ CASE p.cls = "Update" ->
              /\ p.this \in {"Table", "Subquery"}
              /\ p.this = "Table" => p.found # <<>>
              /\ p.this = "Subquery" => Len(p.found) <= 1
              /\ p.cols # {}
         [] p.cls = "Insert" ->
              /\ p.this \in {"Table", "Schema"}
              /\ p.found # <<>>
              /\ p.this = "Schema" => Len(p.found) <= 1
              /\ Cardinality(p.cols) <= 1
         [] p.cls = "Drop" ->
              /\ p.this \in {"Table", "Column"}
              /\ (p.this = "Column") = (p.found = <<>>)
              /\ p.cols = {}
         [] p.cls = "Command" -> p.this = "Table" /\ p.found = <<>> /\ p.cols = {}
         [] p.cls \in {"Select", "Union"} -> p.this = "Table" /\ p.cols = {}
         [] OTHER -> p.this = "Table" /\ p.found # <<>> /\ p.cols = {}
    /\ p.where => p.cls \in {"Select", "Update", "Delete"}
    /\ CASE p.cls \in {"Drop", "Command", "Union"} -> p.fault = "none"
         [] p.cls = "Alter" -> TRUE
         [] OTHER -> p.fault \in {"none", "other"} \/ (p.fault = "function" /\ p.where)

Statements ==
    {p \in [cls : RootClasses \ {"Alter"}, found : FoundLists,
             order : 0..(MaxTables - 1),
             this : {"Table", "Schema", "Subquery", "Column"}, where : BOOLEAN,
             cols : {{}, {"status"}, {"status", "name"}},
             fault : {"none", "syntax", "other", "function"},
             text : {<<>>}] : WellFormed(p)}
    \cup
    {p \in [cls : {"Alter"}, found : FoundLists, order : 0..(MaxTables - 1),
             this : {"Table"}, where : {FALSE}, cols : {{}},
             fault : {"none", "syntax", "other"},
             text : AlterTexts] : WellFormed(p)}

\* get_statement_type() for a root of class cls: the first key of
\* type_mapping that the upper-cased class name contains, else that name.
statement_type_of(cls) ==
    LET statement_type == upper(cls)
        hits == {i \in 1..Len(type_mapping) :
                    IsSubstring(chars(type_mapping[i]), statement_type)}
    IN IF hits # {}
       THEN type_mapping[CHOOSE i \in hits : \A j \in hits : i <= j]
       ELSE str(statement_type)

StatementTypes == [cls \in RootClasses |-> statement_type_of(cls)]

get_statement_type(p) == StatementTypes[p.cls]

get_affected_tables(p) == Range(p.found)

\* list(self.get_affected_tables())
affected_tables_list(p) ==
    IF p.found = <<>> THEN <<>> ELSE Rotate(p.found, p.order % Len(p.found))

\* Expression.name: the text of a leaf `this`; "" when `this` is no leaf.
EmptyName == ""
UnknownName == "unknown"

\* The keys of get_affected_columns() and the column set of each.
get_affected_columns(p) ==
    LET statement_type == get_statement_type(p)
    IN CASE statement_type = "UPDATE" ->
              LET table_name ==
                      IF p.this = "Table" THEN p.found[1]
                      ELSE IF p.found # <<>> THEN p.found[1] ELSE UnknownName
              IN [t \in {table_name} |-> p.cols]
         [] statement_type = "INSERT" ->
              LET table_name == IF p.this = "Table" THEN p.found[1] ELSE EmptyName
              IN [t \in {table_name} |-> p.cols]
         [] statement_type = "DELETE" ->
              [t \in get_affected_tables(p) |-> {}]
         [] statement_type \in {"ALTER", "DROP", "TRUNCATE"} ->
              [t \in get_affected_tables(p) |-> {}]
         [] OTHER -> [t \in {} |-> {}]

has_where_clause(p) == p.where

get_impact_radius(p) ==
    [statement_type |-> get_statement_type(p),
     affected_tables |-> affected_tables_list(p),
     affected_columns |-> get_affected_columns(p),
     has_where_clause |-> has_where_clause(p)]

\* ------------------------------------------------------------- risk assessor
LOW == "Low"
MEDIUM == "Medium"
HIGH == "High"

HIGH_RISK_STATEMENTS == {"ALTER", "DROP", "TRUNCATE"}
MEDIUM_RISK_STATEMENTS == {"UPDATE", "DELETE"}
LOW_RISK_STATEMENTS == {"SELECT", "INSERT"}

determine_risk_level(statement_type) ==
    IF statement_type \in HIGH_RISK_STATEMENTS THEN HIGH
    ELSE IF statement_type \in MEDIUM_RISK_STATEMENTS THEN MEDIUM
    ELSE IF statement_type \in LOW_RISK_STATEMENTS THEN LOW
    ELSE MEDIUM

\* ', '.join(tables) if tables else fallback
JoinOr(tables, fallback) == IF tables # <<>> THEN tables ELSE <<fallback>>

HighRiskPrefix == "HIGH RISK: "
CriticalPrefix == "CRITICAL: This "
FanOutPrefix == "WARNING: This statement affects "

FanOutThreshold == 3

\* generate_warnings with a missing-WHERE warning that names the first table only.
generate_warnings_first_table(statement_type, impact_radius) ==
    LET structural ==
            IF statement_type \in HIGH_RISK_STATEMENTS
            THEN <<(<<HighRiskPrefix, statement_type>>)>>
            ELSE <<>>
        missing_where ==
            IF statement_type \in {"UPDATE", "DELETE"} /\ ~impact_radius.has_where_clause
            THEN <<(<<CriticalPrefix, statement_type,
                      " statement lacks a WHERE clause and will affect ALL rows in ">>
                    \o (IF impact_radius.affected_tables # <<>>
                        THEN <<impact_radius.affected_tables[1]>>
                        ELSE <<"target table(s)">>))>>
            ELSE <<>>
        fan_out ==
            IF Len(impact_radius.affected_tables) > FanOutThreshold
            THEN <<(<<FanOutPrefix, ToString(Len(impact_radius.affected_tables)), " tables">>)>>
            ELSE <<>>
    IN structural \o missing_where \o fan_out

\* generate_warnings whose fan-out warning starts at the threshold itself.
generate_warnings_fan_out_at_threshold(statement_type, impact_radius) ==
    LET structural ==
            IF statement_type \in HIGH_RISK_STATEMENTS
            THEN <<(<<HighRiskPrefix, statement_type>>)>>
            ELSE <<>>
        missing_where ==
            IF statement_type \in {"UPDATE", "DELETE"} /\ ~impact_radius.has_where_clause
            THEN <<(<<CriticalPrefix, statement_type,
                      " statement lacks a WHERE clause and will affect ALL rows in ">>
                    \o JoinOr(impact_radius.affected_tables, "target table(s)"))>>
            ELSE <<>>
        fan_out ==
            IF Len(impact_radius.affected_tables) >= FanOutThreshold
            THEN <<(<<FanOutPrefix, ToString(Len(impact_radius.affected_tables)), " tables">>)>>
            ELSE <<>>
    IN structural \o missing_where \o fan_out

generate_warnings(statement_type, impact_radius) ==
    LET structural ==
            IF statement_type \in HIGH_RISK_STATEMENTS
            THEN <<(<<HighRiskPrefix, statement_type>>)>>
            ELSE <<>>
        missing_where ==
            IF statement_type \in {"UPDATE", "DELETE"} /\ ~impact_radius.has_where_clause
            THEN <<(<<CriticalPrefix, statement_type,
                      " statement lacks a WHERE clause and will affect ALL rows in ">>
                    \o JoinOr(impact_radius.affected_tables, "target table(s)"))>>
            ELSE <<>>
        fan_out ==
            IF Len(impact_radius.affected_tables) > FanOutThreshold
            THEN <<(<<FanOutPrefix, ToString(Len(impact_radius.affected_tables)), " tables">>)>>
            ELSE <<>>
    IN structural \o missing_where \o fan_out

generate_explanation(risk_level, statement_type, impact_radius) ==
    LET affected_tables == impact_radius.affected_tables
        has_where == impact_radius.has_where_clause
        head == <<"Risk Level: ", risk_level>>
    IN CASE risk_level = HIGH ->
              head \o <<"This is a ", statement_type, " statement, HIGH RISK">>
         [] risk_level = MEDIUM /\ statement_type \in {"UPDATE", "DELETE"} /\ ~has_where ->
              head \o <<"This ", statement_type, " statement will affect ALL rows in ">>
                   \o JoinOr(affected_tables, "the target table")
         [] risk_level = MEDIUM /\ statement_type \in {"UPDATE", "DELETE"} /\ has_where ->
              head \o <<"This ", statement_type, " statement will modify data in ">>
                   \o JoinOr(affected_tables, "the target table")
         [] risk_level = LOW /\ statement_type = "SELECT" ->
              head \o <<"This is a SELECT statement (read-only)">>
         [] risk_level = LOW /\ statement_type = "INSERT" ->
              head \o <<"This INSERT statement will add new rows to ">>
                   \o JoinOr(affected_tables, "the target table")
         [] OTHER -> head

\* assess_risk with a risk level that rises when the WHERE clause is missing.
assess_risk_where_sensitive(p) ==
    LET statement_type == get_statement_type(p)
        impact_radius == get_impact_radius(p)
        risk_level ==
            IF statement_type \in {"UPDATE", "DELETE"} /\ ~impact_radius.has_where_clause
            THEN HIGH
            ELSE determine_risk_level(statement_type)
    IN [risk_level |-> risk_level,
        statement_type |-> statement_type,
        warnings |-> generate_warnings(statement_type, impact_radius),
        explanation |-> generate_explanation(risk_level, statement_type, impact_radius)]

assess_risk(p) ==
    LET statement_type == get_statement_type(p)
        impact_radius == get_impact_radius(p)
        risk_level == determine_risk_level(statement_type)
    IN [risk_level |-> risk_level,
        statement_type |-> statement_type,
        warnings |-> generate_warnings(statement_type, impact_radius),
        explanation |-> generate_explanation(risk_level, statement_type, impact_radius)]

\* ---------------------------------------------------------- in-memory engine
\* A table that the engine does not hold.
NoTable == -1
\* duckdb.connect(":memory:"): an engine with no tables.
EmptyDb == [n \in Names |-> NoTable]

\* str(e) of the engine's exceptions.
NoError == ""
ErrMissing == "Catalog Error: Table with name T does not exist!"
ErrExists == "Catalog Error: Table with name T already exists!"
ErrSyntax == "Parser Error: syntax error at or near"
ErrOther == "Conversion Error: Could not convert"
ErrNoFunction == "Catalog Error: Scalar Function with name F does not exist!"

\* `"does not exist" in error_str or "Table with name" in error_str`
IsMissingTableText(msg) == msg \in {ErrMissing, ErrExists, ErrNoFunction}
\* `"not supported" in error_str.lower() or "syntax" in error_str.lower()`
IsUnsupportedText(msg) == msg \in {ErrSyntax}

Answer(err, db, rows) == [error |-> err, db |-> db, rows |-> rows]

\* conn.execute(sql) for the statement p; k is the number of rows of the
\* target table that a WHERE predicate selects.  The engine parses, then
\* resolves the tables, then runs the statement.
ExecSql(db, p, k) ==
    LET target == p.found[1]
        hit == IF p.where THEN Min(k, db[target]) ELSE db[target]
    IN CASE p.fault = "syntax" -> Answer(ErrSyntax, db, 0)
         [] p.found = <<>> ->
              IF p.fault = "other" THEN Answer(ErrOther, db, 0)
              ELSE IF p.fault = "function" THEN Answer(ErrNoFunction, db, 0)
              ELSE Answer(NoError, db, 1)
         [] p.cls = "Create" /\ db[target] # NoTable -> Answer(ErrExists, db, 0)
         [] \E i \in 1..Len(p.found) :
                /\ db[p.found[i]] = NoTable
                /\ ~(p.cls = "Create" /\ i = 1) -> Answer(ErrMissing, db, 0)
         [] p.fault = "other" -> Answer(ErrOther, db, 0)
         [] p.fault = "function" -> Answer(ErrNoFunction, db, 0)
         [] p.cls = "Create" -> Answer(NoError, [db EXCEPT ![target] = 0], 0)
         [] p.cls = "Select" -> Answer(NoError, db, hit)
         [] p.cls = "Delete" -> Answer(NoError, [db EXCEPT ![target] = @ - hit], hit)
         [] p.cls = "TruncateTable" -> Answer(NoError, [db EXCEPT ![target] = 0], 0)
         [] p.cls = "Insert" -> Answer(NoError, [db EXCEPT ![target] = @ + 1], 1)
         [] p.cls = "Drop" -> Answer(NoError, [db EXCEPT ![target] = NoTable], 0)
         [] OTHER -> Answer(NoError, db, 0)

\* conn.execute(f"SELECT COUNT(*) FROM {table_name}"), and the other reads
\* that interpolate the bare table name: a reserved word does not parse.
ReadTable(db, table_name) ==
    IF Reserved(table_name) THEN Answer(ErrSyntax, db, 0)
    ELSE IF db[table_name] = NoTable THEN Answer(ErrMissing, db, 0)
    ELSE Answer(NoError, db, db[table_name])

\* `query_result[:10]` and `LIMIT 5`: the rows a preview holds at most.
PreviewLimit == 10
UpdatePreviewLimit == 5

\* sample_data: a sequence of (table name, rows) in the dictionary's order; a
\* row is the number of values of a list or tuple, 0 for any other object.
SampleChoices ==
    {<<>>,
     <<[name |-> "users", rows |-> <<2>>], [name |-> "orders", rows |-> <<1, 1>>]>>,
     <<[name |-> "orders", rows |-> <<>>], [name |-> "users", rows |-> <<1, 0>>]>>,
     <<[name |-> "orders", rows |-> <<1>>], [name |-> "users", rows |-> <<1, 2>>]>>,
     <<[name |-> "order", rows |-> <<1>>]>>,
     <<[name |-> "users", rows |-> [i \in 1..(PreviewLimit + 1) |-> 1]]>>}

\* _format_rows keeps the rows that are lists or tuples.
format_rows(rows) == SelectSeq(rows, LAMBDA w : w > 0)

\* conn.execute(f"CREATE TABLE {table_name} AS SELECT * FROM (VALUES ...)")
CreateTableAs(db, table_name, values) ==
    IF Reserved(table_name) \/ values = <<>> THEN Answer(ErrSyntax, db, 0)
    ELSE IF \E i, j \in 1..Len(values) : values[i] # values[j] THEN Answer(ErrOther, db, 0)
    ELSE IF db[table_name] # NoTable THEN Answer(ErrExists, db, 0)
    ELSE Answer(NoError, [db EXCEPT ![table_name] = Len(values)], 0)

\* The loop over sample_data.items(): stops at the first exception.
RECURSIVE SeedTables(_, _, _)
SeedTables(db, sample_data, i) ==
    IF i > Len(sample_data) THEN Answer(NoError, db, 0)
    ELSE IF sample_data[i].rows = <<>> THEN SeedTables(db, sample_data, i + 1)
    ELSE LET a == CreateTableAs(db, sample_data[i].name, format_rows(sample_data[i].rows))
         IN IF a.error # NoError THEN a ELSE SeedTables(a.db, sample_data, i + 1)

\* ------------------------------------------------------------ dry-run engine
\* estimated_rows_affected: None, an integer or a text.
RowsNone == [kind |-> "none", n |-> 0, text |-> ""]
RowsInt(n) == [kind |-> "int", n |-> n, text |-> ""]
RowsText(t) == [kind |-> "text", n |-> 0, text |-> t]

\* preview: None or the list of rows (a row is its position in the result).
NoPreview == [set |-> FALSE, rows |-> <<>>]
PreviewOf(n) == [set |-> TRUE, rows |-> [i \in 1..n |-> i]]

NoteNeedsTables == <<"Dry-run simulation requires actual database tables. The SQL syntax appears valid.">>
ErrorExpected == <<"Note: Dry-run cannot execute SQL without actual table structure. This is expected behavior.">>

\* What one call of simulate() does: raised whether it raises to its caller
\* (exc the exception text), result the dictionary it returns otherwise, db
\* the engine afterwards, executed whether conn.execute(sql) ran.
Returned(result, db, executed) ==
    [raised |-> FALSE, exc |-> NoError, result |-> result, db |-> db, executed |-> executed]

\* simulate_select that stores every row of the result as the preview.
simulate_select_uncut(result, db, p, k) ==
    LET a == ExecSql(db, p, k)
    IN IF a.error # NoError
       THEN Returned([result EXCEPT !.error = <<a.error>>, !.simulation_successful = FALSE],
                     a.db, TRUE)
       ELSE Returned([result EXCEPT !.simulation_successful = TRUE,
                                    !.preview = PreviewOf(a.rows),
                                    !.estimated_rows_affected = RowsInt(a.rows)],
                     a.db, TRUE)

\* simulate_select that marks the outcome successful before it executes and
\* only records the error when the engine rejects the statement.
simulate_select_marks_first(result, db, p, k) ==
    LET a == ExecSql(db, p, k)
    IN IF a.error # NoError
       THEN Returned([result EXCEPT !.error = <<a.error>>, !.simulation_successful = TRUE],
                     a.db, TRUE)
       ELSE Returned([result EXCEPT !.simulation_successful = TRUE,
                                    !.preview = PreviewOf(Min(a.rows, PreviewLimit)),
                                    !.estimated_rows_affected = RowsInt(a.rows)],
                     a.db, TRUE)

simulate_select(result, db, p, k) ==
    LET a == ExecSql(db, p, k)
    IN IF a.error # NoError
       THEN Returned([result EXCEPT !.error = <<a.error>>, !.simulation_successful = FALSE],
                     a.db, TRUE)
       ELSE Returned([result EXCEPT !.simulation_successful = TRUE,
                                    !.preview = PreviewOf(Min(a.rows, PreviewLimit)),
                                    !.estimated_rows_affected = RowsInt(a.rows)],
                     a.db, TRUE)

simulate_update(result, db, p, k) ==
    IF result.affected_tables = <<>> THEN Returned(result, db, FALSE)
    ELSE
    LET table_name == result.affected_tables[1]
        before == ReadTable(db, table_name)
        a == ExecSql(db, p, k)
        shown == ReadTable(a.db, table_name)
    IN IF before.error # NoError /\ IsMissingTableText(before.error)
       THEN Returned([result EXCEPT
                        !.error = ErrorExpected \o <<" Original error: ", before.error>>,
                        !.simulation_successful = FALSE,
                        !.note = NoteNeedsTables],
                     db, FALSE)
       ELSE IF a.error = NoError
       THEN Returned([result EXCEPT
                        !.simulation_successful = TRUE,
                        !.estimated_rows_affected =
                            RowsText("Unknown (table may not exist in simulation)"),
                        !.preview = IF shown.error = NoError
                                    THEN PreviewOf(Min(shown.rows, UpdatePreviewLimit))
                                    ELSE @],
                     a.db, TRUE)
       ELSE IF IsMissingTableText(a.error)
       THEN Returned([result EXCEPT !.error = ErrorExpected,
                                    !.simulation_successful = FALSE,
                                    !.note = NoteNeedsTables],
                     a.db, TRUE)
       ELSE Returned([result EXCEPT !.error = <<"Could not simulate UPDATE: ", a.error>>,
                                    !.simulation_successful = FALSE],
                     a.db, TRUE)

\* DELETE and TRUNCATE share the shape count, execute, count.
CountExecuteCount(db, p, k, table_name) ==
    LET before == ReadTable(db, table_name)
        a == ExecSql(db, p, k)
        after == ReadTable(a.db, table_name)
    IN IF before.error # NoError
       THEN [error |-> before.error, db |-> db, executed |-> FALSE, before |-> 0, after |-> 0]
       ELSE IF a.error # NoError
       THEN [error |-> a.error, db |-> a.db, executed |-> TRUE, before |-> 0, after |-> 0]
       ELSE [error |-> after.error, db |-> a.db, executed |-> TRUE,
             before |-> before.rows, after |-> after.rows]

simulate_delete(result, db, p, k) ==
    IF result.affected_tables = <<>> THEN Returned(result, db, FALSE)
    ELSE
    LET table_name == result.affected_tables[1]
        c == CountExecuteCount(db, p, k, table_name)
    IN IF c.error = NoError
       THEN Returned([result EXCEPT
                        !.estimated_rows_affected = RowsInt(c.before - c.after),
                        !.simulation_successful = TRUE],
                     c.db, c.executed)
       ELSE IF IsMissingTableText(c.error)
       THEN Returned([result EXCEPT
                        !.error = ErrorExpected \o <<" Original error: ", c.error>>,
                        !.simulation_successful = FALSE,
                        !.note = NoteNeedsTables],
                     c.db, c.executed)
       ELSE Returned([result EXCEPT !.error = <<"Could not simulate DELETE: ", c.error>>,
                                    !.simulation_successful = FALSE],
                     c.db, c.executed)

simulate_insert(result, db, p, k) ==
    LET a == ExecSql(db, p, k)
    IN IF a.error # NoError
       THEN Returned([result EXCEPT !.error = <<a.error>>, !.simulation_successful = FALSE],
                     a.db, TRUE)
       ELSE IF result.affected_tables = <<>> THEN Returned(result, a.db, TRUE)
       ELSE IF ReadTable(a.db, result.affected_tables[1]).error = NoError
       THEN Returned([result EXCEPT
                        !.estimated_rows_affected = RowsText("Unknown (may be 1 or more)"),
                        !.simulation_successful = TRUE],
                     a.db, TRUE)
       ELSE Returned([result EXCEPT !.simulation_successful = TRUE], a.db, TRUE)

\* ------------------------------------------------------ ALTER sub-analysis
\* str.upper() of a word of the statement text or of a piece of an
\* operation's text, as its characters.
upper_chars(s) ==
    CASE s = "ALTER" -> <<"A", "L", "T", "E", "R">>
      [] s = "TABLE" -> <<"T", "A", "B", "L", "E">>
      [] s = "USERS" -> <<"U", "S", "E", "R", "S">>
      [] s = "ORDERS" -> <<"O", "R", "D", "E", "R", "S">>
      [] s = "ORDER" -> <<"O", "R", "D", "E", "R">>
      [] s = "LOGS" -> <<"L", "O", "G", "S">>
      [] s = "AUDIT" -> <<"A", "U", "D", "I", "T">>
      [] s = "ADD" -> <<"A", "D", "D">>
      [] s = "COLUMN" -> <<"C", "O", "L", "U", "M", "N">>
      [] s = "AGE" -> <<"A", "G", "E">>
      [] s = "INT" -> <<"I", "N", "T">>
      [] s = "DROP" -> <<"D", "R", "O", "P">>
      [] s = "DROPPED" -> <<"D", "R", "O", "P", "P", "E", "D">>
      [] s = "RENAME" -> <<"R", "E", "N", "A", "M", "E">>
      [] s = "TO" -> <<"T", "O">>
      [] s = "YEARS" -> <<"Y", "E", "A", "R", "S">>
      [] s = "CLIENTS" -> <<"C", "L", "I", "E", "N", "T", "S">>
      [] s = "TYPE" -> <<"T", "Y", "P", "E">>
      [] s = "CONSTRAINT" -> <<"C", "O", "N", "S", "T", "R", "A", "I", "N", "T">>
      [] s = "PK" -> <<"P", "K">>
      [] s = "UNIQUE" -> <<"U", "N", "I", "Q", "U", "E">>
      [] s = "(AGE)" -> <<"(", "A", "G", "E", ")">>
      [] s = "SET" -> <<"S", "E", "T">>
      [] s = "LOGGED" -> <<"L", "O", "G", "G", "E", "D">>
      [] s = "," -> <<",">>
      [] s = "EMAIL" -> <<"E", "M", "A", "I", "L">>
      [] s = "MODIFY" -> <<"M", "O", "D", "I", "F", "Y">>
      [] s = "ADD COLUMN " -> <<"A", "D", "D", " ", "C", "O", "L", "U", "M", "N", " ">>
      [] s = " (" -> <<" ", "(">>
      [] s = ")" -> <<")">>
      [] s = "DROP COLUMN " -> <<"D", "R", "O", "P", " ", "C", "O", "L", "U", "M", "N", " ">>
      [] s = "RENAME COLUMN " -> <<"R", "E", "N", "A", "M", "E", " ", "C", "O", "L", "U", "M", "N", " ">>
      [] s = " TO " -> <<" ", "T", "O", " ">>
      [] s = "MODIFY COLUMN " -> <<"M", "O", "D", "I", "F", "Y", " ", "C", "O", "L", "U", "M", "N", " ">>
      [] s = "ADD CONSTRAINT " -> <<"A", "D", "D", " ", "C", "O", "N", "S", "T", "R", "A", "I", "N", "T", " ">>
      [] s = "DROP CONSTRAINT " -> <<"D", "R", "O", "P", " ", "C", "O", "N", "S", "T", "R", "A", "I", "N", "T", " ">>
      [] s = "ADD (operation type)" -> <<"A", "D", "D", " ", "(", "O", "P", "E", "R", "A", "T", "I", "O", "N", " ", "T", "Y", "P", "E", ")">>
      [] s = "DROP (operation type)" -> <<"D", "R", "O", "P", " ", "(", "O", "P", "E", "R", "A", "T", "I", "O", "N", " ", "T", "Y", "P", "E", ")">>
      [] s = "RENAME (operation type)" -> <<"R", "E", "N", "A", "M", "E", " ", "(", "O", "P", "E", "R", "A", "T", "I", "O", "N", " ", "T", "Y", "P", "E", ")">>
      [] s = "MODIFY (operation type)" -> <<"M", "O", "D", "I", "F", "Y", " ", "(", "O", "P", "E", "R", "A", "T", "I", "O", "N", " ", "T", "Y", "P", "E", ")">>
      [] s = "ALTER TABLE" -> <<"A", "L", "T", "E", "R", " ", "T", "A", "B", "L", "E">>
      [] s = "Unknown type" -> <<"U", "N", "K", "N", "O", "W", "N", " ", "T", "Y", "P", "E">>

\* sql.upper() as its words: the text between whitespace.
upper_name(n) ==
    CASE n = "users" -> "USERS"
      [] n = "orders" -> "ORDERS"
      [] n = "order" -> "ORDER"
      [] n = "logs" -> "LOGS"
      [] n = "audit" -> "AUDIT"

sql_upper(p) == <<"ALTER", "TABLE", upper_name(p.found[1])>> \o p.text

\* `keyword in text` for a keyword without blanks.
InText(keyword, words) ==
    \E i \in 1..Len(words) : IsSubstring(upper_chars(keyword), upper_chars(words[i]))

\* A regular expression that starts with a keyword matches where a word
\* ends with it; (\w+) captures a word that starts with a word character.
EndsWith(w, keyword) ==
    LET a == upper_chars(w)
        b == upper_chars(keyword)
    IN Len(a) >= Len(b) /\ SubSeq(a, Len(a) - Len(b) + 1, Len(a)) = b

IsWord(w) == upper_chars(w)[1] \notin {",", "(", ")"}

NoMatch == <<>>

Leftmost(hits) == CHOOSE i \in hits : \A j \in hits : i <= j

\* re.search(r'KEYWORD\s+(?:OPTIONAL\s+)?(\w+)', sql_upper): group 1, for
\* the match that starts in word i and over the whole text.
keyword_at(words, keyword, optional, i) ==
    IF ~EndsWith(words[i], keyword) THEN NoMatch
    ELSE IF i + 2 <= Len(words) /\ words[i + 1] = optional /\ IsWord(words[i + 2])
    THEN <<words[i + 2]>>
    ELSE IF i + 1 <= Len(words) /\ IsWord(words[i + 1])
    THEN <<words[i + 1]>>
    ELSE NoMatch

search_keyword(words, keyword, optional) ==
    LET hits == {i \in 1..Len(words) : keyword_at(words, keyword, optional, i) # NoMatch}
    IN IF hits = {} THEN NoMatch ELSE keyword_at(words, keyword, optional, Leftmost(hits))

\* re.search(rf'ADD\s+(?:COLUMN\s+)?{col_name}\s+(\w+(?:\s*\(\s*\d+\s*\))?)', sql_upper)
type_at(words, col_name, i) ==
    IF ~EndsWith(words[i], "ADD") THEN NoMatch
    ELSE IF i + 3 <= Len(words) /\ words[i + 1] = "COLUMN" /\ words[i + 2] = col_name
            /\ IsWord(words[i + 3])
    THEN <<words[i + 3]>>
    ELSE IF i + 2 <= Len(words) /\ words[i + 1] = col_name /\ IsWord(words[i + 2])
    THEN <<words[i + 2]>>
    ELSE NoMatch

search_type(words, col_name) ==
    LET hits == {i \in 1..Len(words) : type_at(words, col_name, i) # NoMatch}
    IN IF hits = {} THEN NoMatch ELSE type_at(words, col_name, Leftmost(hits))

\* re.search(r'RENAME\s+(?:COLUMN\s+)?(\w+)\s+TO\s+(\w+)', sql_upper): groups 1, 2.
rename_at(words, i) ==
    IF ~EndsWith(words[i], "RENAME") THEN NoMatch
    ELSE IF i + 4 <= Len(words) /\ words[i + 1] = "COLUMN" /\ IsWord(words[i + 2])
            /\ words[i + 3] = "TO" /\ IsWord(words[i + 4])
    THEN <<words[i + 2], words[i + 4]>>
    ELSE IF i + 3 <= Len(words) /\ IsWord(words[i + 1]) /\ words[i + 2] = "TO"
            /\ IsWord(words[i + 3])
    THEN <<words[i + 1], words[i + 3]>>
    ELSE NoMatch

search_rename(words) ==
    LET hits == {i \in 1..Len(words) : rename_at(words, i) # NoMatch}
    IN IF hits = {} THEN NoMatch ELSE rename_at(words, Leftmost(hits))

\* re.search(r'(?:MODIFY|ALTER\s+COLUMN)\s+(\w+)', sql_upper): group 1.
modify_at(words, i) ==
    IF EndsWith(words[i], "MODIFY") /\ i + 1 <= Len(words) /\ IsWord(words[i + 1])
    THEN <<words[i + 1]>>
    ELSE IF EndsWith(words[i], "ALTER") /\ i + 2 <= Len(words)
            /\ words[i + 1] = "COLUMN" /\ IsWord(words[i + 2])
    THEN <<words[i + 2]>>
    ELSE NoMatch

search_modify(words) ==
    LET hits == {i \in 1..Len(words) : modify_at(words, i) # NoMatch}
    IN IF hits = {} THEN NoMatch ELSE modify_at(words, Leftmost(hits))

\* re.search(r'DROP\s+CONSTRAINT\s+(\w+)', sql_upper): group 1.
drop_constraint_at(words, i) ==
    IF EndsWith(words[i], "DROP") /\ i + 2 <= Len(words)
       /\ words[i + 1] = "CONSTRAINT" /\ IsWord(words[i + 2])
    THEN <<words[i + 2]>>
    ELSE NoMatch

search_drop_constraint(words) ==
    LET hits == {i \in 1..Len(words) : drop_constraint_at(words, i) # NoMatch}
    IN IF hits = {} THEN NoMatch ELSE drop_constraint_at(words, Leftmost(hits))

\* `keyword in " ".join(operations).upper()`
InOperations(keyword, operations) ==
    \E i \in 1..Len(operations) : InText(keyword, operations[i])

\* ", ".join(operations)
RECURSIVE JoinComma(_)
JoinComma(operations) ==
    IF operations = <<>> THEN <<>>
    ELSE IF Len(operations) = 1 THEN operations[1]
    ELSE operations[1] \o <<", ">> \o JoinComma(Tail(operations))

SummaryRename == <<"Will rename columns (data preserved)">>
SummaryDrop == <<"Will permanently remove columns/constraints">>
SummaryAdd == <<"Will add new columns/constraints">>
SummaryModify == <<"Will modify existing column structure">>
SummaryGeneric == <<"Will modify table structure">>

\* The keys that a result holds only for an ALTER.
NoAlterDetails == [operations |-> <<>>, columns_affected |-> {}, tables_affected |-> <<>>]

\* The operations that the six patterns find, in the order the code appends
\* them; an operation is the pieces of its f-string.
operation_list(words, add_col_match, drop_col_match, rename_match, modify_match, add_constraint_match, drop_constraint_match) ==
    (IF add_col_match # NoMatch
     THEN <<(<<"ADD COLUMN ", add_col_match[1], " (">>
             \o (IF add_col_match # NoMatch /\ search_type(words, add_col_match[1]) # NoMatch
                 THEN search_type(words, add_col_match[1])
                 ELSE <<"Unknown type">>)
             \o <<")">>)>>
     ELSE <<>>)
    \o (IF drop_col_match # NoMatch
        THEN <<(<<"DROP COLUMN ", drop_col_match[1]>>)>> ELSE <<>>)
    \o (IF rename_match # NoMatch
        THEN <<(<<"RENAME COLUMN ", rename_match[1], " TO ", rename_match[2]>>)>>
        ELSE <<>>)
    \o (IF modify_match # NoMatch
        THEN <<(<<"MODIFY COLUMN ", modify_match[1]>>)>> ELSE <<>>)
    \o (IF add_constraint_match # NoMatch /\ ~InText("COLUMN", words)
        THEN <<(<<"ADD CONSTRAINT ", add_constraint_match[1]>>)>> ELSE <<>>)
    \o (IF drop_constraint_match # NoMatch
        THEN <<(<<"DROP CONSTRAINT ", drop_constraint_match[1]>>)>> ELSE <<>>)

\* `if not operations:` the generic operation by the first keyword present.
generic_operation(words) ==
    IF InText("ADD", words) THEN <<(<<"ADD (operation type)">>)>>
    ELSE IF InText("DROP", words) THEN <<(<<"DROP (operation type)">>)>>
    ELSE IF InText("RENAME", words) THEN <<(<<"RENAME (operation type)">>)>>
    ELSE IF InText("MODIFY", words)
            \/ \E i \in 1..(Len(words) - 1) :
                  EndsWith(words[i], "ALTER") /\ words[i + 1] = "COLUMN"
    THEN <<(<<"MODIFY (operation type)">>)>>
    ELSE <<(<<"ALTER TABLE">>)>>

or_generic(found, words) == IF found # <<>> THEN found ELSE generic_operation(words)

alter_operations(words) ==
    or_generic(operation_list(words,
                              search_keyword(words, "ADD", "COLUMN"),
                              search_keyword(words, "DROP", "COLUMN"),
                              search_rename(words),
                              search_modify(words),
                              search_keyword(words, "ADD", "CONSTRAINT"),
                              search_drop_constraint(words)),
               words)

\* columns_affected: list(set(...)), kept as the set.
alter_columns(words) ==
    Range(search_keyword(words, "ADD", "COLUMN"))
        \cup Range(search_keyword(words, "DROP", "COLUMN"))
        \cup Range(search_rename(words))
        \cup Range(search_modify(words))

\* The impact summary by the first keyword that the operations' text holds.
impact_summary_of(operations) ==
    IF InOperations("RENAME", operations) THEN SummaryRename
    ELSE IF InOperations("DROP", operations) THEN SummaryDrop
    ELSE IF InOperations("ADD", operations) THEN SummaryAdd
    ELSE IF InOperations("MODIFY", operations) THEN SummaryModify
    ELSE SummaryGeneric

alter_result(operations, columns_affected, affected_tables) ==
    [alter_operation |-> JoinComma(operations),
     alter_details |-> [operations |-> operations,
                        columns_affected |-> columns_affected,
                        tables_affected |-> affected_tables],
     impact_summary |-> impact_summary_of(operations)]

\* DryRunEngine._analyze_alter_statement(sql, affected_tables).  The
\* patterns raise no exception, so the except branch is not reached.
analyze_alter_statement(p, affected_tables) ==
    alter_result(alter_operations(sql_upper(p)), alter_columns(sql_upper(p)),
                 affected_tables)

\* result.update(alter_analysis)
update_result(result, alter_analysis) ==
    [result EXCEPT !.alter_operation = alter_analysis.alter_operation,
                   !.alter_details = alter_analysis.alter_details,
                   !.impact_summary = alter_analysis.impact_summary]

\* alter_attempt that keeps the analysis only when the table is in the
\* engine: without the table it reports the operation as unknown.
alter_attempt_forgets(result, db, p, k) ==
    IF result.affected_tables = <<>> THEN Returned(result, db, FALSE)
    ELSE
    LET a == ExecSql(db, p, k)
    IN IF ReadTable(db, result.affected_tables[1]).error # NoError
       THEN Returned([result EXCEPT
                        !.simulation_successful = FALSE,
                        !.alter_operation = <<"Unknown">>,
                        !.alter_details = NoAlterDetails,
                        !.impact_summary = SummaryGeneric],
                     db, FALSE)
       ELSE Returned([result EXCEPT
                        !.simulation_successful = (a.error = NoError),
                        !.error = IF a.error = NoError THEN None
                                  ELSE <<"Could not simulate ALTER: ", a.error>>],
                     a.db, TRUE)

\* The ALTER branch after the analysis: the attempt on the engine.
alter_attempt(result, db, p, k) ==
    IF result.affected_tables = <<>> THEN Returned(result, db, FALSE)
    ELSE
    LET table_name == result.affected_tables[1]
        exists == ReadTable(db, table_name)
        a == ExecSql(db, p, k)
    IN IF exists.error # NoError
       THEN Returned([result EXCEPT
                        !.simulation_successful = FALSE,
                        !.note = <<"Table structure not available in simulation. The SQL syntax has been validated and the operation type has been identified.">>],
                     db, FALSE)
       ELSE IF a.error = NoError
       THEN Returned([result EXCEPT
                        !.simulation_successful = TRUE,
                        !.note = <<"ALTER statement executed successfully in simulation. In production, this will modify the actual table structure.">>],
                     a.db, TRUE)
       ELSE IF IsUnsupportedText(a.error)
       THEN Returned([result EXCEPT
                        !.simulation_successful = FALSE,
                        !.error = <<"ALTER operation syntax validated, but specific operation may not be fully supported by DuckDB. Original error: ", a.error>>,
                        !.note = <<"The SQL syntax appears valid. This operation will modify table structure in production.">>],
                     a.db, TRUE)
       ELSE Returned([result EXCEPT !.error = <<"Could not simulate ALTER: ", a.error>>],
                     a.db, TRUE)

simulate_alter(result, db, p, k) ==
    alter_attempt(update_result(result, analyze_alter_statement(p, result.affected_tables)),
                  db, p, k)

\* simulate_drop that runs the statement, as the CREATE branch does.
simulate_drop_executes(result, db, p, k) ==
    LET a == ExecSql(db, p, k)
    IN IF result.affected_tables # <<>>
       THEN Returned([result EXCEPT
                        !.simulation_successful = (a.error = NoError),
                        !.note = <<"DROP statement will permanently delete: ">>
                                 \o result.affected_tables
                                 \o <<". This cannot be simulated without actual database objects.">>,
                        !.estimated_rows_affected =
                            RowsText("All data in affected objects will be lost")],
                     a.db, TRUE)
       ELSE Returned([result EXCEPT !.simulation_successful = FALSE,
                                    !.error = <<"Could not identify objects to be dropped.">>],
                     db, FALSE)

simulate_drop(result, db, p, k) ==
    IF result.affected_tables # <<>>
    THEN Returned([result EXCEPT
                     !.simulation_successful = FALSE,
                     !.note = <<"DROP statement will permanently delete: ">>
                              \o result.affected_tables
                              \o <<". This cannot be simulated without actual database objects.">>,
                     !.estimated_rows_affected =
                         RowsText("All data in affected objects will be lost")],
                  db, FALSE)
    ELSE Returned([result EXCEPT !.simulation_successful = FALSE,
                                 !.error = <<"Could not identify objects to be dropped.">>],
                  db, FALSE)

\* simulate_truncate that never runs the statement.
simulate_truncate_advisory(result, db, p, k) ==
    IF result.affected_tables = <<>> THEN Returned(result, db, FALSE)
    ELSE Returned([result EXCEPT
                     !.simulation_successful = FALSE,
                     !.note = <<"TRUNCATE statement syntax validated. In production, this will remove all rows from the table.">>],
                  db, FALSE)

simulate_truncate(result, db, p, k) ==
    IF result.affected_tables = <<>> THEN Returned(result, db, FALSE)
    ELSE
    LET table_name == result.affected_tables[1]
        c == CountExecuteCount(db, p, k, table_name)
    IN IF c.error = NoError
       THEN Returned([result EXCEPT
                        !.estimated_rows_affected = RowsInt(c.before - c.after),
                        !.simulation_successful = TRUE,
                        !.note = <<"TRUNCATE would remove all ", ToString(c.before),
                                   " rows from ", table_name>>],
                     c.db, c.executed)
       ELSE IF IsMissingTableText(c.error)
       THEN Returned([result EXCEPT
                        !.simulation_successful = FALSE,
                        !.note = <<"TRUNCATE statement syntax validated. In production, this will remove all rows from the table.">>],
                     c.db, c.executed)
       ELSE Returned([result EXCEPT !.error = <<"Could not simulate TRUNCATE: ", c.error>>],
                     c.db, c.executed)

simulate_create(result, db, p, k) ==
    LET a == ExecSql(db, p, k)
    IN IF a.error = NoError
       THEN Returned([result EXCEPT
                        !.simulation_successful = TRUE,
                        !.note = <<"CREATE statement executed successfully in simulation.">>],
                     a.db, TRUE)
       ELSE Returned([result EXCEPT
                        !.simulation_successful = FALSE,
                        !.note = <<"CREATE statement syntax validated. Original error: ", a.error>>],
                     a.db, TRUE)

simulate_other(result, db, p, k) ==
    Returned([result EXCEPT
                !.simulation_successful = FALSE,
                !.note = <<result.statement_type, " statement syntax validated. Full simulation requires actual database connection.">>],
             db, FALSE)

\* DryRunEngine.simulate(sql, sample_data) on the engine db.
simulate(db, p, sample_data, k) ==
    LET seeded == SeedTables(db, sample_data, 1)
        impact_radius == get_impact_radius(p)
        statement_type == impact_radius.statement_type
        result == [simulation_successful |-> FALSE,
                   statement_type |-> statement_type,
                   affected_tables |-> impact_radius.affected_tables,
                   estimated_rows_affected |-> RowsNone,
                   error |-> None,
                   preview |-> NoPreview,
                   note |-> Absent,
                   alter_operation |-> Absent,
                   alter_details |-> NoAlterDetails,
                   impact_summary |-> Absent]
    IN IF seeded.error # NoError
       THEN [raised |-> TRUE, exc |-> seeded.error, result |-> result,
             db |-> seeded.db, executed |-> FALSE]
       ELSE CASE statement_type = "SELECT" -> simulate_select(result, seeded.db, p, k)
              [] statement_type = "UPDATE" -> simulate_update(result, seeded.db, p, k)
              [] statement_type = "DELETE" -> simulate_delete(result, seeded.db, p, k)
              [] statement_type = "INSERT" -> simulate_insert(result, seeded.db, p, k)
              [] statement_type = "ALTER" -> simulate_alter(result, seeded.db, p, k)
              [] statement_type = "DROP" -> simulate_drop(result, seeded.db, p, k)
              [] statement_type = "TRUNCATE" -> simulate_truncate(result, seeded.db, p, k)
              [] statement_type = "CREATE" -> simulate_create(result, seeded.db, p, k)
              [] OTHER -> simulate_other(result, seeded.db, p, k)

\* -------------------------------------------------------- rollback generator
Providers == {"deepseek", "anthropic", "openai"}

\* Config.get_llm_provider() over the API keys the environment sets; None
\* where RollbackGenerator.__init__ catches its ValueError.
get_llm_provider(keys) ==
    IF "deepseek" \in keys THEN <<"deepseek">>
    ELSE IF "anthropic" \in keys THEN <<"anthropic">>
    ELSE IF "openai" \in keys THEN <<"openai">>
    ELSE None

\* How the remote service answers one request.
LlmAnswers == {"script", "quota"}

Raise(msg) == [raised |-> TRUE, value |-> msg]
Return(value) == [raised |-> FALSE, value |-> value]

generate_with_anthropic(llm) ==
    IF llm = "script" THEN Return(<<"-- rollback (anthropic)">>)
    ELSE Raise(<<"Anthropic API quota exceeded.">>)

generate_with_openai(llm) ==
    IF llm = "script" THEN Return(<<"-- rollback (openai)">>)
    ELSE Raise(<<"OpenAI API quota exceeded.">>)

generate_rollback(provider, llm) ==
    IF provider = None
    THEN Raise(<<"No LLM API key configured. Please set ANTHROPIC_API_KEY or OPENAI_API_KEY in .env file">>)
    ELSE IF provider = <<"anthropic">> THEN generate_with_anthropic(llm)
    ELSE IF provider = <<"openai">> THEN generate_with_openai(llm)
    ELSE Raise(<<"Unknown LLM provider: ">> \o provider)

\* -------------------------------------------------------------- safety report
\* The keys every simulate() result holds, and a result before it is filled.
BaseKeys ==
    {"simulation_successful", "statement_type", "affected_tables",
     "estimated_rows_affected", "error", "preview"}

BlankResult ==
    [simulation_successful |-> FALSE, statement_type |-> "", affected_tables |-> <<>>,
     estimated_rows_affected |-> RowsNone, error |-> None, preview |-> NoPreview,
     note |-> Absent, alter_operation |-> Absent, alter_details |-> NoAlterDetails,
     impact_summary |-> Absent]

\* report["dry_run"]: None, or a dictionary given by its keys and values.
DryRunNone == [is_none |-> TRUE, keys |-> {}, d |-> BlankResult]
DryRunOf(result) ==
    [is_none |-> FALSE,
     keys |-> BaseKeys \cup (IF result.note # Absent THEN {"note"} ELSE {})
                       \cup (IF result.alter_operation # Absent
                             THEN {"alter_operation", "alter_details", "impact_summary"}
                             ELSE {}),
     d |-> result]
DryRunFailed(exc) ==
    [is_none |-> FALSE, keys |-> {"simulation_successful", "error"},
     d |-> [BlankResult EXCEPT !.error = <<exc>>]]

\* The call of DryRunEngine.simulate that generate() or a direct caller made
\* last: what it did, with the sample data it was given.
NoCall ==
    [made |-> FALSE, by |-> "", sample_data |-> <<>>, before |-> EmptyDb,
     raised |-> FALSE, exc |-> NoError, result |-> BlankResult, db |-> EmptyDb,
     executed |-> FALSE]

CallOf(by, sample, before, sim) ==
    [made |-> TRUE, by |-> by, sample_data |-> sample, before |-> before,
     raised |-> sim.raised, exc |-> sim.exc, result |-> sim.result, db |-> sim.db,
     executed |-> sim.executed]

NoStatement ==
    [cls |-> "", found |-> <<>>, order |-> 0, this |-> "", where |-> FALSE,
     cols |-> {}, fault |-> "none", text |-> <<>>]

\* The state before any generate() call.
NoReport ==
    [made |-> FALSE, raised |-> FALSE, risk_level |-> "", statement_type |-> "",
     impact |-> [tables_affected |-> 0, tables |-> <<>>, columns_affected |-> 0,
                 columns_by_table |-> <<>>, has_where_clause |-> FALSE],
     warnings |-> <<>>, explanation |-> <<>>, rollback_script |-> None,
     rollback_error |-> None, dry_run |-> DryRunNone, steps |-> <<>>,
     collaborator |-> [called |-> FALSE, answer |-> [raised |-> FALSE, value |-> None]]]

RECURSIVE SumOver(_, _)
SumOver(f, keys) ==
    IF keys = {} THEN 0
    ELSE LET key == CHOOSE x \in keys : TRUE
         IN Cardinality(f[key]) + SumOver(f, keys \ {key})

\* The rollback part of generate(): the script and the error it records.
RollbackPlaceholder(msg) ==
    <<"-- Error generating rollback: ">> \o msg \o <<"-- Manual rollback may be required.">>

\* No call of the collaborator.
NoAnswer == [raised |-> FALSE, value |-> None]

\* rollback_section without the try/except around generate_rollback.
rollback_section_unguarded(include_rollback, provider, llm) ==
    IF ~include_rollback
    THEN [called |-> FALSE, answer |-> NoAnswer, raised |-> FALSE,
          script |-> None, error |-> None]
    ELSE LET r == generate_rollback(provider, llm)
         IN IF r.raised
            THEN [called |-> TRUE, answer |-> r, raised |-> TRUE,
                  script |-> None, error |-> None]
            ELSE [called |-> TRUE, answer |-> r, raised |-> FALSE,
                  script |-> r.value, error |-> None]

\* rollback_section that records the error and leaves the script unset.
rollback_section_no_placeholder(include_rollback, provider, llm) ==
    IF ~include_rollback
    THEN [called |-> FALSE, answer |-> NoAnswer, raised |-> FALSE,
          script |-> None, error |-> None]
    ELSE LET r == generate_rollback(provider, llm)
         IN IF r.raised
            THEN [called |-> TRUE, answer |-> r, raised |-> FALSE,
                  script |-> None, error |-> r.value]
            ELSE [called |-> TRUE, answer |-> r, raised |-> FALSE,
                  script |-> r.value, error |-> None]

\* answer is what generate_rollback did; raised whether its exception leaves
\* generate() (the `except Exception` lets none through).
rollback_section(include_rollback, provider, llm) ==
    IF ~include_rollback
    THEN [called |-> FALSE, answer |-> NoAnswer, raised |-> FALSE,
          script |-> None, error |-> None]
    ELSE LET r == generate_rollback(provider, llm)
         IN IF r.raised
            THEN [called |-> TRUE, answer |-> r, raised |-> FALSE,
                  script |-> RollbackPlaceholder(r.value), error |-> r.value]
            ELSE [called |-> TRUE, answer |-> r, raised |-> FALSE,
                  script |-> r.value, error |-> None]

\* The dry-run part of generate(): the call made and the value stored.
dry_run_section(sim) ==
    IF sim.raised THEN DryRunFailed(sim.exc) ELSE DryRunOf(sim.result)

\* build_report that stores the simulation's outcome whether or not the
\* dry run was asked for.
build_report_always_simulates(p, rb, include_dry_run, sim) ==
    LET impact_radius == get_impact_radius(p)
        risk_assessment == assess_risk(p)
        affected_columns == impact_radius.affected_columns
    IN [made |-> TRUE,
        raised |-> FALSE,
        risk_level |-> risk_assessment.risk_level,
        statement_type |-> risk_assessment.statement_type,
        impact |-> [tables_affected |-> Len(impact_radius.affected_tables),
                    tables |-> impact_radius.affected_tables,
                    columns_affected |-> SumOver(affected_columns, DOMAIN affected_columns),
                    columns_by_table |-> affected_columns,
                    has_where_clause |-> impact_radius.has_where_clause],
        warnings |-> risk_assessment.warnings,
        explanation |-> risk_assessment.explanation,
        rollback_script |-> rb.script,
        rollback_error |-> rb.error,
        dry_run |-> dry_run_section(sim),
        steps |-> <<"impact", "risk">>
                  \o (IF rb.called THEN <<"rollback">> ELSE <<>>)
                  \o <<"simulate">>,
        collaborator |-> [called |-> rb.called, answer |-> rb.answer]]

\* build_report that runs the simulation before it asks for the rollback.
build_report_simulates_first(p, rb, include_dry_run, sim) ==
    LET impact_radius == get_impact_radius(p)
        risk_assessment == assess_risk(p)
        affected_columns == impact_radius.affected_columns
    IN [made |-> TRUE,
        raised |-> FALSE,
        risk_level |-> risk_assessment.risk_level,
        statement_type |-> risk_assessment.statement_type,
        impact |-> [tables_affected |-> Len(impact_radius.affected_tables),
                    tables |-> impact_radius.affected_tables,
                    columns_affected |-> SumOver(affected_columns, DOMAIN affected_columns),
                    columns_by_table |-> affected_columns,
                    has_where_clause |-> impact_radius.has_where_clause],
        warnings |-> risk_assessment.warnings,
        explanation |-> risk_assessment.explanation,
        rollback_script |-> rb.script,
        rollback_error |-> rb.error,
        dry_run |-> IF include_dry_run THEN dry_run_section(sim) ELSE DryRunNone,
        steps |-> <<"impact", "risk">>
                  \o (IF include_dry_run THEN <<"simulate">> ELSE <<>>)
                  \o (IF rb.called THEN <<"rollback">> ELSE <<>>),
        collaborator |-> [called |-> rb.called, answer |-> rb.answer]]

\* SafetyReport.generate(): the report built from the parts.  made says
\* that generate() was called, raised that an exception left it (and then no
\* report exists), steps the calls it made, collaborator what the rollback
\* collaborator did.
build_report(p, rb, include_dry_run, sim) ==
    LET impact_radius == get_impact_radius(p)
        risk_assessment == assess_risk(p)
        affected_columns == impact_radius.affected_columns
        collaborator == [called |-> rb.called, answer |-> rb.answer]
    IN IF rb.raised
       THEN [NoReport EXCEPT !.made = TRUE, !.raised = TRUE,
                             !.steps = <<"impact", "risk", "rollback">>,
                             !.collaborator = collaborator]
       ELSE
       [made |-> TRUE,
        raised |-> FALSE,
        risk_level |-> risk_assessment.risk_level,
        statement_type |-> risk_assessment.statement_type,
        impact |-> [tables_affected |-> Len(impact_radius.affected_tables),
                    tables |-> impact_radius.affected_tables,
                    columns_affected |-> SumOver(affected_columns, DOMAIN affected_columns),
                    columns_by_table |-> affected_columns,
                    has_where_clause |-> impact_radius.has_where_clause],
        warnings |-> risk_assessment.warnings,
        explanation |-> risk_assessment.explanation,
        rollback_script |-> rb.script,
        rollback_error |-> rb.error,
        dry_run |-> IF include_dry_run THEN dry_run_section(sim) ELSE DryRunNone,
        steps |-> <<"impact", "risk">>
                  \o (IF rb.called THEN <<"rollback">> ELSE <<>>)
                  \o (IF include_dry_run THEN <<"simulate">> ELSE <<>>),
        collaborator |-> collaborator]

\* format_report: the per-table column lines of the impact section, one
\* for each key of columns_by_table; shown is what follows "<table>: ".
AllColumns == "All columns"

\* format_columns that prints no line for a table with an empty column set.
format_columns_skips_empty(impact) ==
    {[table |-> t, shown |-> impact.columns_by_table[t]] :
        t \in {u \in DOMAIN impact.columns_by_table : impact.columns_by_table[u] # {}}}

format_columns(impact) ==
    {[table |-> t,
      shown |-> IF impact.columns_by_table[t] # {}
                THEN impact.columns_by_table[t] ELSE {AllColumns}] :
        t \in DOMAIN impact.columns_by_table}

\* format_report: the lines of the dry-run section after its heading; a
\* line is its label followed by the pieces of the value printed.
format_dry_run(dry_run) ==
    IF dry_run.is_none THEN <<>>
    ELSE
    LET d == dry_run.d
        has(key) == key \in dry_run.keys
        note_line == IF has("note") THEN <<(<<"note: ">> \o d.note)>> ELSE <<>>
    IN IF d.simulation_successful
       THEN <<(<<"Simulation completed successfully">>)>>
            \o (IF has("estimated_rows_affected") /\ d.estimated_rows_affected.kind # "none"
                THEN <<(<<"Estimated Rows Affected: ",
                          IF d.estimated_rows_affected.kind = "int"
                          THEN ToString(d.estimated_rows_affected.n)
                          ELSE d.estimated_rows_affected.text>>)>>
                ELSE <<>>)
       ELSE IF has("alter_operation")
       THEN <<(<<"ALTER Statement Analysis:">>),
              (<<"Operation: ">> \o d.alter_operation)>>
            \o (IF has("impact_summary") THEN <<(<<"Impact: ">> \o d.impact_summary)>> ELSE <<>>)
            \o (IF d.alter_details.columns_affected # {}
                THEN <<(<<"Columns Affected: ">>)>> ELSE <<>>)
            \o note_line
       ELSE IF has("note") THEN note_line
       ELSE <<(<<"Simulation had issues">>)>>
            \o (IF has("error") /\ d.error # None
                THEN <<(<<"Error: ">> \o d.error)>> ELSE <<>>)

\* ------------------------------------------------------------------ backend
\* analyze_sql(sql, include_rollback, include_dry_run, sample_data): a
\* SafetyReport of its own, constructed and asked for its report once.
analyze_sql(p, o, sample, env, llm, k) ==
    build_report(p,
                 rollback_section(o.include_rollback,
                                  IF o.include_rollback THEN get_llm_provider(env) ELSE None,
                                  llm),
                 o.include_dry_run,
                 simulate(EmptyDb, p, sample, k))

\* What the server sends: the status, and the SQLAnalysisResponse body
\* (success, data, error) or, for an HTTPException that leaves the handler,
\* its detail.  sql is the request's text: "empty", "blank" (whitespace
\* only), "malformed" (sqlglot raises ParseError) or "statement".
NoResponse ==
    [sent |-> FALSE, sql |-> "", status |-> "", body |-> "", success |-> FALSE,
     data |-> NoReport, error |-> None]

ResponseBody(sql, success, data, error) ==
    [sent |-> TRUE, sql |-> sql, status |-> "200", body |-> "SQLAnalysisResponse",
     success |-> success, data |-> data, error |-> error]

HttpError(sql, status, detail) ==
    [sent |-> TRUE, sql |-> sql, status |-> status, body |-> "detail",
     success |-> FALSE, data |-> NoReport, error |-> detail]

EmptyDetail == "SQL statement cannot be empty"

\* analyze_sql_endpoint(request).  The HTTPException for an empty sql is
\* raised inside the try block; it is no ValueError, so `except Exception`
\* catches it and a body is returned.
analyze_sql_endpoint(sql, p, o, sample, env, llm, k) ==
    IF sql \in {"empty", "blank"}
    THEN ResponseBody(sql, FALSE, NoReport,
                      <<"Error analyzing SQL: ", "400: ", EmptyDetail>>)
    ELSE IF sql = "malformed"
    THEN ResponseBody(sql, FALSE, NoReport,
                      <<"SQL parsing error: ", "Failed to parse SQL: ">>)
    ELSE ResponseBody(sql, TRUE, analyze_sql(p, o, sample, env, llm, k), None)

\* ---------------------------------------------------------------- the system
VARIABLES
    phase,          \* "idle": no object; "ready": a SafetyReport exists;
                    \* "engine": a DryRunEngine of its own exists;
                    \* "with": it is the subject of an open with block;
                    \* "left", "escaped": the block was left, normally or
                    \* by an exception;
                    \* "rejected": the constructor raised ValueError;
                    \* "answered": a POST /analyze request was answered
    parser,         \* self.parser.parsed, as a statement record
    options,        \* include_rollback, include_dry_run
    sample_data,    \* self.sample_data
    keys,           \* the API keys of the environment
    provider,       \* self.rollback_generator.provider
    conn,           \* whether self.dry_run_engine.conn is an open connection
    db,             \* the tables of that connection's engine
    call,           \* the last call of DryRunEngine.simulate
    report,         \* what the last generate() returned
    response        \* what the last POST /analyze request was answered

vars == <<phase, parser, options, sample_data, keys, provider, conn, db, call, report, response>>

OptionSets == [include_rollback : BOOLEAN, include_dry_run : BOOLEAN]

\* The API keys that the environment may set: none, each alone, and
\* DeepSeek's beside another provider's.
KeySets == {{}, {"deepseek"}, {"anthropic"}, {"openai"}, {"deepseek", "anthropic"}}

\* The arguments of one SafetyReport(...) or analyze_sql(...) call besides
\* the SQL text.  API keys matter only to the rollback step and sample data
\* only to the dry-run step, so keys are enumerated with include_rollback,
\* sample data with include_dry_run, and the two apart from each other.
\* The sample data of a simulate() call on an engine of its own: none, as
\* the command line calls it, and one dictionary of two tables.
CallerSamples ==
    {<<>>, <<[name |-> "users", rows |-> <<2>>], [name |-> "orders", rows |-> <<1, 1>>]>>}

Requests ==
    {r \in [options : OptionSets, sample_data : SampleChoices, env : KeySets] :
        /\ r.options.include_rollback \/ r.env = {}
        /\ r.options.include_dry_run \/ r.sample_data = <<>>
        /\ r.sample_data = <<>> \/ r.env = {}}

Init ==
    /\ phase = "idle"
    /\ parser = NoStatement
    /\ options = [include_rollback |-> TRUE, include_dry_run |-> TRUE]
    /\ sample_data = <<>>
    /\ keys = {}
    /\ provider = None
    /\ conn = FALSE
    /\ db = EmptyDb
    /\ call = NoCall
    /\ report = NoReport
    /\ response = NoResponse

\* SafetyReport(sql, include_rollback, include_dry_run, sample_data) for SQL
\* that parses to p.  The rollback generator, and so the provider, exists only
\* with include_rollback; sample_data is kept as given.
Construct(p, o, sample, env) ==
    /\ phase = "idle"
    /\ phase' = "ready"
    /\ parser' = p
    /\ options' = o
    /\ sample_data' = sample
    /\ keys' = env
    /\ provider' = IF o.include_rollback THEN get_llm_provider(env) ELSE None
    /\ conn' = FALSE
    /\ db' = EmptyDb
    /\ call' = NoCall
    /\ report' = NoReport
    /\ response' = NoResponse

\* SafetyReport(sql, ...) for SQL that sqlglot rejects: SQLParser._parse
\* turns the ParseError into a ValueError and no object exists.
ConstructRejected ==
    /\ phase = "idle"
    /\ phase' = "rejected"
    /\ UNCHANGED <<parser, options, sample_data, keys, provider, conn, db, call, report, response>>

\* DryRunEngine._get_connection(): the engine this call works on.
get_connection == IF conn THEN db ELSE EmptyDb

\* The engine's tables stay within the rows the sample data can seed.
InBounds(d) == \A n \in Names : d[n] <= PreviewLimit + MaxRows

\* generate() with an assessor that keeps its warning list between calls:
\* each assessment appends to the warnings of the one before.
Generate_accumulates(llm, k) ==
    /\ phase = "ready"
    /\ LET rb == rollback_section(options.include_rollback, provider, llm)
           sim == simulate(get_connection, parser, sample_data, k)
           made == build_report(parser, rb, options.include_dry_run, sim)
       IN /\ options.include_dry_run => InBounds(sim.db)
          /\ report' = [made EXCEPT !.warnings = report.warnings \o @]
          /\ IF options.include_dry_run /\ ~rb.raised
             THEN /\ conn' = TRUE
                  /\ db' = sim.db
                  /\ call' = CallOf("generate", sample_data, get_connection, sim)
             ELSE UNCHANGED <<conn, db, call>>
    /\ UNCHANGED <<phase, parser, options, sample_data, keys, provider, response>>

\* report = self.generate()
Generate(llm, k) ==
    /\ phase = "ready"
    /\ LET rb == rollback_section(options.include_rollback, provider, llm)
           sim == simulate(get_connection, parser, sample_data, k)
       IN /\ options.include_dry_run => InBounds(sim.db)
          /\ report' = build_report(parser, rb, options.include_dry_run, sim)
          /\ IF options.include_dry_run /\ ~rb.raised
             THEN /\ conn' = TRUE
                  /\ db' = sim.db
                  /\ call' = CallOf("generate", sample_data, get_connection, sim)
             ELSE UNCHANGED <<conn, db, call>>
    /\ UNCHANGED <<phase, parser, options, sample_data, keys, provider, response>>

\* DryRunEngine(SQLParser(sql)) on its own, as the command line's dry-run
\* builds it.
ConstructEngine(p) ==
    /\ phase = "idle"
    /\ phase' = "engine"
    /\ parser' = p
    /\ options' = [include_rollback |-> FALSE, include_dry_run |-> TRUE]
    /\ sample_data' = <<>>
    /\ keys' = {}
    /\ provider' = None
    /\ conn' = FALSE
    /\ db' = EmptyDb
    /\ call' = NoCall
    /\ report' = NoReport
    /\ response' = NoResponse

\* `with DryRunEngine(SQLParser(sql)) as engine:` the block is entered;
\* __enter__ returns the engine and opens nothing.
EnterWith(p) ==
    /\ phase = "idle"
    /\ phase' = "with"
    /\ parser' = p
    /\ options' = [include_rollback |-> FALSE, include_dry_run |-> TRUE]
    /\ sample_data' = <<>>
    /\ keys' = {}
    /\ provider' = None
    /\ conn' = FALSE
    /\ db' = EmptyDb
    /\ call' = NoCall
    /\ report' = NoReport
    /\ response' = NoResponse

\* The phases in which a DryRunEngine of its own exists: outside a with
\* block, inside one, and after one was left normally or by an exception.
EnginePhases == {"engine", "with", "left", "escaped"}

\* dry_run_engine.simulate(sql, sample) called on that engine; the command
\* line calls it with no sample data.
Simulate(sample, k) ==
    /\ phase \in EnginePhases
    /\ phase' = IF phase = "with" THEN "with" ELSE "engine"
    /\ LET sim == simulate(get_connection, parser, sample, k)
       IN /\ InBounds(sim.db)
          /\ conn' = TRUE
          /\ db' = sim.db
          /\ call' = CallOf("caller", sample, get_connection, sim)
    /\ UNCHANGED <<parser, options, sample_data, keys, provider, report, response>>

\* dry_run_engine.close()
Close ==
    /\ phase \in EnginePhases
    /\ IF conn
       THEN /\ conn' = FALSE
            /\ db' = EmptyDb
       ELSE UNCHANGED <<conn, db>>
    /\ UNCHANGED <<phase, parser, options, sample_data, keys, provider, call, report, response>>

\* __exit__ that returns without closing the engine.
ExitWith_keeps_open(exc) ==
    /\ phase = "with"
    /\ exc => (call.made /\ call.raised)
    /\ phase' = IF exc THEN "escaped" ELSE "left"
    /\ UNCHANGED <<parser, options, sample_data, keys, provider, conn, db, call, report, response>>

\* The with block is left and __exit__ runs close(): normally, or (exc) by
\* the exception that a simulate() call in the block raised.
ExitWith(exc) ==
    /\ phase = "with"
    /\ exc => (call.made /\ call.raised)
    /\ phase' = IF exc THEN "escaped" ELSE "left"
    /\ IF conn
       THEN /\ conn' = FALSE
            /\ db' = EmptyDb
       ELSE UNCHANGED <<conn, db>>
    /\ UNCHANGED <<parser, options, sample_data, keys, provider, call, report, response>>

\* POST /analyze answered for a request whose sql is empty or blank, or
\* does not parse: nothing of the request outlives the handler.
AnalyzeRejected(sql) ==
    /\ phase = "idle"
    /\ phase' = "answered"
    /\ response' = analyze_sql_endpoint(sql, NoStatement, [include_rollback |-> TRUE, include_dry_run |-> TRUE], <<>>, {}, "script", 0)
    /\ UNCHANGED <<parser, options, sample_data, keys, provider, conn, db, call, report>>

\* POST /analyze answered for a request whose sql parses to p.
Analyze(p, o, sample, env, llm, k) ==
    /\ phase = "idle"
    /\ phase' = "answered"
    /\ response' = analyze_sql_endpoint("statement", p, o, sample, env, llm, k)
    /\ UNCHANGED <<parser, options, sample_data, keys, provider, conn, db, call, report>>

\* The request is over: the object is dropped.
Discard ==
    /\ phase \in {"ready", "engine", "left", "escaped", "rejected", "answered"}
    /\ phase' = "idle"
    /\ parser' = NoStatement
    /\ options' = [include_rollback |-> TRUE, include_dry_run |-> TRUE]
    /\ sample_data' = <<>>
    /\ keys' = {}
    /\ provider' = None
    /\ conn' = FALSE
    /\ db' = EmptyDb
    /\ call' = NoCall
    /\ report' = NoReport
    /\ response' = NoResponse

\* The numbers of rows that the statement's WHERE predicate may select.
Matches(p) == IF p.where THEN 0..MaxRows ELSE {0}

Next ==
    \/ /\ phase = "idle"
       /\ \E p \in Statements, r \in Requests :
             Construct(p, r.options, r.sample_data, r.env)
    \/ ConstructRejected
    \/ /\ phase = "ready"
       /\ \E llm \in LlmAnswers, k \in Matches(parser) : Generate(llm, k)
    \/ /\ phase = "idle"
       /\ \E p \in Statements : ConstructEngine(p)
    \/ /\ phase = "idle"
       /\ \E p \in Statements : EnterWith(p)
    \/ /\ phase \in EnginePhases
       /\ \E sample \in CallerSamples, k \in Matches(parser) : Simulate(sample, k)
    \/ Close
    \/ \E exc \in BOOLEAN : ExitWith(exc)
    \/ \E sql \in {"empty", "blank", "malformed"} : AnalyzeRejected(sql)
    \/ /\ phase = "idle"
       /\ \E p \in Statements, r \in Requests, llm \in LlmAnswers :
             \E k \in Matches(p) :
                Analyze(p, r.options, r.sample_data, r.env, llm, k)
    \/ Discard

Spec == Init /\ [][Next]_vars

\* ------------------------------------------------------------------ claims
\* The engine that the statement of the last simulate() call met: the
\* connection's tables with the call's sample tables seeded.
SeededDb == SeedTables(call.before, call.sample_data, 1).db

Returns == call.made /\ ~call.raised

CriticalWarnings(warnings) ==
    {i \in 1..Len(warnings) : warnings[i][1] = CriticalPrefix}

\* The risk level that the claim's table gives a statement type.
RiskTable(statement_type) ==
    CASE statement_type \in {"ALTER", "DROP", "TRUNCATE"} -> "High"
      [] statement_type \in {"UPDATE", "DELETE"} -> "Medium"
      [] statement_type \in {"SELECT", "INSERT"} -> "Low"
      [] OTHER -> "Medium"

\* C1: the risk level of every report is the one the table gives for the
\* statement type alone (High for ALTER, DROP, TRUNCATE; Medium for UPDATE,
\* DELETE; Low for SELECT, INSERT; Medium otherwise), whatever the WHERE
\* clause, the tables, the columns and the literals are.
C1_RiskLevelByTypeAlone ==
    (report.made /\ ~report.raised) =>
        /\ report.statement_type = get_statement_type(parser)
        /\ report.risk_level = RiskTable(report.statement_type)

\* An UPDATE without WHERE over several tables is reported Medium.
C1_Witness ==
    /\ report.made
    /\ report.statement_type = "UPDATE"
    /\ ~report.impact.has_where_clause
    /\ report.impact.tables_affected > 1
    /\ report.risk_level = "Medium"

\* C2: an UPDATE or DELETE without WHERE has exactly one CRITICAL warning,
\* which names every affected table; every other statement has none.
C2_CriticalWarning ==
    (report.made /\ ~report.raised) =>
        LET critical == CriticalWarnings(report.warnings)
        IN IF report.statement_type \in {"UPDATE", "DELETE"}
              /\ ~report.impact.has_where_clause
           THEN /\ Cardinality(critical) = 1
                /\ \A i \in critical :
                      Range(report.impact.tables) \subseteq Range(report.warnings[i])
           ELSE critical = {}

\* A DELETE without WHERE over several tables has its one CRITICAL warning.
C2_Witness ==
    /\ report.made
    /\ report.statement_type = "DELETE"
    /\ ~report.impact.has_where_clause
    /\ report.impact.tables_affected > 1
    /\ Cardinality(CriticalWarnings(report.warnings)) = 1

\* C3: simulating an UPDATE or DELETE none of whose tables exists in the
\* simulation engine never raises; it returns simulation_successful = false
\* with a note.
C3_MissingTableGivesNote ==
    (/\ call.made
     /\ get_statement_type(parser) \in {"UPDATE", "DELETE"}
     /\ parser.found # <<>>
     /\ \A t \in Range(parser.found) : call.db[t] = NoTable) =>
        /\ ~call.raised
        /\ ~call.result.simulation_successful
        /\ call.result.note # Absent

\* C4: simulate() never raises to its caller.
C4_SimulateNeverRaises == call.made => ~call.raised

\* C5 as the specification states it: a DROP is never executed and its
\* outcome is unsuccessful with a note that names the affected objects.
C5_DropAlwaysNoted ==
    (Returns /\ call.result.statement_type = "DROP") =>
        /\ ~call.executed
        /\ ~call.result.simulation_successful
        /\ call.result.note # Absent
        /\ Range(call.result.affected_tables) \subseteq Range(call.result.note)

\* C5: a DROP is never executed and its outcome is unsuccessful; with at
\* least one affected object identified the outcome has a note that names
\* every one of them, and with none it has no note and the error "Could not
\* identify objects to be dropped."
C5_DropNeverExecuted ==
    (Returns /\ call.result.statement_type = "DROP") =>
        /\ ~call.executed
        /\ call.db = SeededDb
        /\ ~call.result.simulation_successful
        /\ IF call.result.affected_tables # <<>>
           THEN /\ call.result.note # Absent
                /\ Range(call.result.affected_tables) \subseteq Range(call.result.note)
                /\ call.result.error = None
           ELSE /\ call.result.note = Absent
                /\ call.result.error = <<"Could not identify objects to be dropped.">>

\* A DROP of a table that the seeded engine holds is answered with the note.
C5_Witness ==
    /\ Returns
    /\ call.result.statement_type = "DROP"
    /\ call.result.affected_tables # <<>>
    /\ SeededDb[call.result.affected_tables[1]] # NoTable
    /\ call.result.note # Absent

\* C6 as the specification states it: a TRUNCATE is never executed and its
\* outcome is always unsuccessful.
C6_TruncateNeverExecuted ==
    (Returns /\ call.result.statement_type = "TRUNCATE") =>
        /\ ~call.executed
        /\ ~call.result.simulation_successful

\* C6: a TRUNCATE is executed exactly when the row count of the first
\* affected table succeeds in the simulation engine; when the engine then
\* accepts it the outcome is successful with estimated_rows_affected = rows
\* before - rows after, and in every other case it is unsuccessful.
C6_TruncateExecutedWhenCounted ==
    (Returns /\ call.result.statement_type = "TRUNCATE") =>
        IF call.result.affected_tables = <<>>
        THEN ~call.executed /\ ~call.result.simulation_successful
        ELSE LET first == call.result.affected_tables[1]
                 counted == ReadTable(SeededDb, first).error = NoError
                 accepted == ExecSql(SeededDb, parser, 0).error = NoError
             IN /\ call.executed = counted
                /\ call.result.simulation_successful = (counted /\ accepted)
                /\ call.result.simulation_successful =>
                      call.result.estimated_rows_affected
                          = RowsInt(SeededDb[first] - call.db[first])

\* A TRUNCATE of a seeded table runs and reports the rows it removed.
C6_Witness ==
    /\ Returns
    /\ call.result.statement_type = "TRUNCATE"
    /\ call.executed
    /\ call.result.simulation_successful
    /\ call.result.estimated_rows_affected.kind = "int"
    /\ call.result.estimated_rows_affected.n > 0

\* C7: when generate() has run a dry-run, the engine's connection is closed
\* by the time generate() has returned.
C7_ConnectionReleased ==
    (phase = "ready" /\ report.made /\ ~report.dry_run.is_none) => ~conn

\* C8: generate() returns a complete report whatever the rollback
\* collaborator and the simulator do: no exception leaves it, the risk
\* part is reported, the simulation runs and its outcome is stored when
\* dry-run is on, and the rollback result is stored when rollback is on.
C8_ReportAlwaysComplete ==
    (phase = "ready" /\ report.made) =>
        /\ ~report.raised
        /\ report.statement_type = get_statement_type(parser)
        /\ report.risk_level \in {LOW, MEDIUM, HIGH}
        /\ report.impact.tables = affected_tables_list(parser)
        /\ report.explanation # <<>>
        /\ options.include_dry_run =>
              /\ call.made
              /\ "simulate" \in Range(report.steps)
              /\ ~report.dry_run.is_none
        /\ options.include_rollback =>
              /\ report.collaborator.called
              /\ report.rollback_script # None

\* Both the collaborator and the simulator fail and the report is complete.
C8_Witness ==
    /\ phase = "ready"
    /\ report.made
    /\ ~report.raised
    /\ report.collaborator.answer.raised
    /\ call.raised
    /\ ~report.dry_run.is_none
    /\ report.rollback_error # None
    /\ report.risk_level = HIGH

\* C9: a failed collaborator leaves a placeholder script that carries the
\* error message, and the same message in rollback_error; a collaborator
\* that succeeds leaves its script and no rollback_error.
C9_RollbackRecorded ==
    (report.made /\ ~report.raised /\ report.collaborator.called) =>
        LET answer == report.collaborator.answer
        IN IF answer.raised
           THEN /\ report.rollback_error = answer.value
                /\ report.rollback_script # None
                /\ report.rollback_script # answer.value
                /\ \E i \in 0..(Len(report.rollback_script) - Len(answer.value)) :
                      SubSeq(report.rollback_script, i + 1, i + Len(answer.value))
                          = answer.value
           ELSE /\ report.rollback_error = None
                /\ report.rollback_script = answer.value

\* The LLM service fails and the report holds the placeholder and the error.
C9_Witness ==
    /\ report.made
    /\ report.collaborator.called
    /\ report.collaborator.answer.raised
    /\ provider = <<"anthropic">>
    /\ report.rollback_error = <<"Anthropic API quota exceeded.">>

\* C10: every key of affected_columns is one of affected_tables.
C10_ColumnKeysAreTables ==
    (report.made /\ ~report.raised) =>
        DOMAIN report.impact.columns_by_table \subseteq Range(report.impact.tables)

\* The statement types of the specification's enumeration.
StatementTypeEnumeration ==
    {"SELECT", "UPDATE", "DELETE", "INSERT", "CREATE", "ALTER", "DROP", "TRUNCATE",
     "UNKNOWN"}

\* C11: the statement_type of every parsed statement is one of SELECT,
\* UPDATE, DELETE, INSERT, CREATE, ALTER, DROP, TRUNCATE, UNKNOWN; a root
\* node of any other kind classifies as UNKNOWN.
C11_StatementTypeEnumerated ==
    /\ (report.made /\ ~report.raised) =>
          report.statement_type \in StatementTypeEnumeration
    /\ call.made => call.result.statement_type \in StatementTypeEnumeration

\* C12: a SELECT that the engine accepts is successful, its
\* estimated_rows_affected is the number of rows returned and its preview is
\* the first 10 of them, so the preview holds min(10, rows returned) rows.
C12_SelectPreview ==
    (/\ Returns
     /\ call.result.statement_type = "SELECT"
     /\ ExecSql(SeededDb, parser, 0).error = NoError) =>
        /\ call.executed
        /\ call.result.simulation_successful
        /\ call.result.error = None
        /\ call.result.estimated_rows_affected.kind = "int"
        /\ call.result.estimated_rows_affected.n
              \in {ExecSql(SeededDb, parser, k).rows : k \in Matches(parser)}
        /\ call.result.preview.set
        /\ call.result.preview.rows
              = [i \in 1..Min(10, call.result.estimated_rows_affected.n) |-> i]
        /\ Len(call.result.preview.rows) <= 10

\* A SELECT returns more than 10 rows and the preview holds 10.
C12_Witness ==
    /\ Returns
    /\ call.result.statement_type = "SELECT"
    /\ call.result.simulation_successful
    /\ call.result.estimated_rows_affected.n > 10
    /\ Len(call.result.preview.rows) = 10

\* The structural sub-analysis that an outcome carries.
AlterAnalysis(r) ==
    [alter_operation |-> r.alter_operation,
     alter_details |-> r.alter_details,
     impact_summary |-> r.impact_summary]

\* A simulate() call on an ALTER statement that returned an outcome.
AlterOutcome(c) == c.made /\ ~c.raised /\ c.result.statement_type = "ALTER"

\* C13: every outcome of simulating an ALTER statement carries the
\* structural sub-analysis (operations, columns touched, impact summary),
\* and two outcomes for the same statement carry the same sub-analysis
\* whatever the engine held at each call: the table missing, present and
\* altered, or present and failing to alter.
C13_AlterAnalysisCarried ==
    [][/\ AlterOutcome(call') =>
            /\ call'.result.alter_operation # Absent
            /\ call'.result.alter_details.operations # <<>>
            /\ call'.result.alter_details.tables_affected = call'.result.affected_tables
            /\ call'.result.impact_summary # Absent
       /\ (AlterOutcome(call) /\ AlterOutcome(call') /\ parser' = parser) =>
            AlterAnalysis(call'.result) = AlterAnalysis(call.result)]_vars

\* An ALTER whose table is in the engine and that the engine rejects,
\* after a call on the same engine that had started without the table.
C13_Witness ==
    /\ AlterOutcome(call)
    /\ call.result.affected_tables # <<>>
    /\ call.before[call.result.affected_tables[1]] # NoTable
    /\ call.executed
    /\ ~call.result.simulation_successful
    /\ call.result.alter_details.columns_affected # {}
    /\ call.result.impact_summary = SummaryAdd

\* The kind of an operation is the literal the code puts first in it.
RenameKinds == {"RENAME COLUMN ", "RENAME (operation type)"}
DropKinds == {"DROP COLUMN ", "DROP CONSTRAINT ", "DROP (operation type)"}
AddKinds == {"ADD COLUMN ", "ADD CONSTRAINT ", "ADD (operation type)"}
ModifyKinds == {"MODIFY COLUMN ", "MODIFY (operation type)"}

HasKind(operations, kinds) == \E i \in 1..Len(operations) : operations[i][1] \in kinds

SummaryByKinds(operations) ==
    IF HasKind(operations, RenameKinds) THEN SummaryRename
    ELSE IF HasKind(operations, DropKinds) THEN SummaryDrop
    ELSE IF HasKind(operations, AddKinds) THEN SummaryAdd
    ELSE IF HasKind(operations, ModifyKinds) THEN SummaryModify
    ELSE SummaryGeneric

\* C14: the impact summary of an ALTER outcome is chosen by the kinds of
\* the operations found, in the priority RENAME > DROP > ADD > MODIFY >
\* generic; an ALTER that only adds a column gets the additive summary
\* whatever the column is called.
C14_SummaryByOperationKinds ==
    AlterOutcome(call) =>
        /\ call.result.impact_summary = SummaryByKinds(call.result.alter_details.operations)
        /\ (\A i \in 1..Len(call.result.alter_details.operations) :
                call.result.alter_details.operations[i][1] = "ADD COLUMN ") =>
                    call.result.impact_summary = SummaryAdd

\* The assessment that a report shows.
Assessment(r) ==
    [risk_level |-> r.risk_level, warnings |-> r.warnings, explanation |-> r.explanation]

C16_DryRunNamesStatement ==
    (report.made /\ ~report.raised /\ ~report.dry_run.is_none) =>
        /\ {"statement_type", "affected_tables"} \subseteq report.dry_run.keys
        /\ report.dry_run.d.statement_type = report.statement_type
        /\ report.dry_run.d.affected_tables = report.impact.tables

\* C17: with include_rollback false the rollback collaborator is neither
\* constructed nor invoked and the report has rollback_script = None and
\* rollback_error = None; with include_dry_run false no engine is opened or
\* used and the report has dry_run = None; in both cases risk_level,
\* statement_type, impact, warnings and explanation are those of the parsed
\* statement alone, as with every option enabled.
C17_DisabledOptionsSkipSteps ==
    (phase = "ready" /\ report.made /\ ~report.raised) =>
        /\ ~options.include_rollback =>
              /\ provider = None
              /\ ~report.collaborator.called
              /\ "rollback" \notin Range(report.steps)
              /\ report.rollback_script = None
              /\ report.rollback_error = None
        /\ ~options.include_dry_run =>
              /\ ~conn /\ db = EmptyDb /\ ~call.made
              /\ "simulate" \notin Range(report.steps)
              /\ report.dry_run.is_none
        /\ Assessment(report) = Assessment(assess_risk(parser))
        /\ report.statement_type = get_statement_type(parser)
        /\ report.impact.tables = get_impact_radius(parser).affected_tables
        /\ report.impact.columns_by_table = get_impact_radius(parser).affected_columns
        /\ report.impact.has_where_clause = get_impact_radius(parser).has_where_clause

\* A report made with both options disabled for a statement that has
\* warnings.
C17_Witness ==
    /\ phase = "ready" /\ report.made /\ ~report.raised
    /\ ~options.include_rollback /\ ~options.include_dry_run
    /\ report.risk_level = HIGH /\ report.warnings # <<>>
    /\ report.dry_run.is_none /\ report.rollback_script = None

\* The places of a step in the sequence of calls that generate() made.
Places(steps, name) == {i \in 1..Len(steps) : steps[i] = name}

\* C18: within one request the simulation step is invoked before the
\* rollback collaborator: parse and assess risk, then simulate, then
\* generate rollback.
C18_SimulateBeforeRollback ==
    (report.made /\ ~report.raised) =>
        \A i \in Places(report.steps, "simulate"), j \in Places(report.steps, "rollback") :
            i < j

\* C18, amended: the steps of one request run in the order impact
\* descriptor, risk assessment, rollback (when enabled), simulation (when
\* enabled): the rollback collaborator is invoked before the simulation.
C18_RollbackBeforeSimulate ==
    (phase = "ready" /\ report.made /\ ~report.raised) =>
        /\ report.steps = <<"impact", "risk">>
                            \o (IF options.include_rollback THEN <<"rollback">> ELSE <<>>)
                            \o (IF options.include_dry_run THEN <<"simulate">> ELSE <<>>)
        /\ \A i \in Places(report.steps, "rollback"), j \in Places(report.steps, "simulate") :
              i < j

\* A request that made both calls: the collaborator answered and the
\* simulation returned an outcome.
C18_Witness ==
    /\ phase = "ready" /\ report.made /\ ~report.raised
    /\ report.collaborator.called /\ ~report.dry_run.is_none
    /\ call.made /\ call.by = "generate"
    /\ Places(report.steps, "rollback") # {} /\ Places(report.steps, "simulate") # {}

\* C19: every simulate() call starts on a freshly created, empty engine, so
\* that after seeding it holds only the tables of that call's sample_data:
\* nothing that an earlier simulate() on the same DryRunEngine, or an
\* earlier generate() on the same SafetyReport, created is there.
C19_FreshEnginePerCall == call.made => call.before = EmptyDb

\* C20: leaving a `with DryRunEngine(...)` block, normally or through an
\* exception raised inside it, leaves the engine with no open connection;
\* close() on an engine with no connection changes nothing; and a
\* simulate() call on a closed engine opens a new, empty connection.
C20_WithBlockCloses ==
    [][/\ (phase = "with" /\ phase' # "with") => ~conn'
       /\ (phase \in EnginePhases /\ phase' = phase /\ ~conn /\ ~conn') =>
             UNCHANGED vars
       /\ (phase \in EnginePhases /\ phase' \in EnginePhases /\ ~conn /\ call' # call) =>
             /\ conn' /\ call'.made /\ call'.before = EmptyDb]_vars

\* A with block that a raising simulate() call left: the connection that
\* the call had opened is closed.
C20_Witness ==
    /\ phase = "escaped" /\ ~conn /\ db = EmptyDb
    /\ call.made /\ call.raised

\* The warnings that the claim's three rules give, each by its opening
\* words, in the rules' order.
ExpectedWarningKinds(kind, with_where, table_count) ==
    (IF kind \in {"ALTER", "DROP", "TRUNCATE"} THEN <<HighRiskPrefix>> ELSE <<>>)
    \o (IF kind \in {"UPDATE", "DELETE"} /\ ~with_where
        THEN <<CriticalPrefix>> ELSE <<>>)
    \o (IF table_count > 3 THEN <<FanOutPrefix>> ELSE <<>>)

\* C21: the warnings are, in this order, one structural warning naming the
\* statement type iff the type is ALTER, DROP or TRUNCATE, one CRITICAL
\* warning iff the type is UPDATE or DELETE without a WHERE clause, and one
\* fan-out warning carrying the table count iff more than 3 tables are
\* affected; there is no other warning, so there are at most 2.
C21_WarningsByRule ==
    (report.made /\ ~report.raised) =>
        /\ [i \in 1..Len(report.warnings) |-> report.warnings[i][1]]
              = ExpectedWarningKinds(report.statement_type,
                                     report.impact.has_where_clause,
                                     report.impact.tables_affected)
        /\ \A i \in 1..Len(report.warnings) :
              /\ report.warnings[i][1] = HighRiskPrefix =>
                    report.warnings[i][2] = report.statement_type
              /\ report.warnings[i][1] = FanOutPrefix =>
                    report.warnings[i][2] = ToString(report.impact.tables_affected)
        /\ Len(report.warnings) <= 2

\* A DELETE without WHERE over four tables: the CRITICAL warning, then the
\* fan-out warning.
C21_Witness ==
    /\ report.made /\ ~report.raised
    /\ report.statement_type = "DELETE" /\ ~report.impact.has_where_clause
    /\ report.impact.tables_affected = 4
    /\ Len(report.warnings) = 2
    /\ report.warnings[2][1] = FanOutPrefix

\* The statement of the call names a table that the seeded engine lacks.
TableMissing == \E i \in 1..Len(parser.found) : SeededDb[parser.found[i]] = NoTable

\* C22: a DELETE that executes reports estimated_rows_affected = the row
\* count before minus the row count after, with simulation_successful =
\* true; a failed DELETE carries a note only when the failure is a
\* missing-table error, and any other execution error is a hard error:
\* simulation_successful = false, the error set and no note.
C22_DeleteErrorClasses ==
    (Returns /\ call.result.statement_type = "DELETE" /\ call.result.affected_tables # <<>>) =>
        LET table_name == call.result.affected_tables[1]
        IN /\ call.result.simulation_successful =>
                 /\ call.executed
                 /\ call.result.error = None
                 /\ call.result.estimated_rows_affected
                        = RowsInt(SeededDb[table_name] - call.db[table_name])
           /\ call.result.note # Absent => TableMissing
           /\ (~call.result.simulation_successful /\ ~TableMissing) =>
                 /\ call.result.error # None
                 /\ call.result.note = Absent

\* C23: for UPDATE and DELETE the row counts, the missing-table check and
\* the preview are made against the statement's primary target table, also
\* when the statement names further tables: a DELETE that removes k rows
\* from its target table reports estimated_rows_affected = k.
C23_TargetTableUsed ==
    (/\ Returns /\ call.result.statement_type \in {"UPDATE", "DELETE"}
     /\ call.result.affected_tables # <<>> /\ parser.found # <<>>) =>
        /\ call.result.affected_tables[1] = parser.found[1]
        /\ (call.result.statement_type = "DELETE" /\ call.result.simulation_successful) =>
              call.result.estimated_rows_affected
                 = RowsInt(SeededDb[parser.found[1]] - call.db[parser.found[1]])

\* C24: an ALTER is executed against the engine only after its target
\* table was found there: with the table missing the ALTER is never
\* executed and the outcome is unsuccessful with an advisory note; with the
\* table present and the ALTER rejected the outcome is unsuccessful with
\* the engine's error in the error field.
C24_AlterOnlyOnExistingTable ==
    (AlterOutcome(call) /\ parser.found # <<>>) =>
        LET target == parser.found[1]
            a == ExecSql(SeededDb, parser, 0)
        IN /\ call.executed => SeededDb[target] # NoTable
           /\ SeededDb[target] = NoTable =>
                 /\ ~call.executed
                 /\ ~call.result.simulation_successful
                 /\ call.result.note # Absent
           /\ (SeededDb[target] # NoTable /\ a.error # NoError) =>
                 /\ call.executed
                 /\ ~call.result.simulation_successful
                 /\ a.error \in Range(call.result.error)

\* C25: the ALTER sub-analysis reports each operation under its own kind:
\* a constraint operation is not reported as ADD COLUMN or DROP COLUMN, an
\* added column is not also reported as an added constraint, and the
\* columns touched never hold the keyword CONSTRAINT.
C25_OperationsUnderOwnKind ==
    AlterOutcome(call) =>
        LET operations == call.result.alter_details.operations
        IN /\ \A i \in 1..Len(operations) :
                 operations[i][1] \in {"ADD COLUMN ", "DROP COLUMN "} =>
                     operations[i][2] # "CONSTRAINT"
           /\ \A i, j \in 1..Len(operations) :
                 ~(/\ operations[i][1] = "ADD COLUMN "
                   /\ operations[j][1] = "ADD CONSTRAINT "
                   /\ operations[i][2] = operations[j][2])
           /\ "CONSTRAINT" \notin call.result.alter_details.columns_affected

\* The (table, column) pairs that a report's columns_by_table holds.
ColumnPairs(columns_by_table) ==
    UNION {{<<t, c>> : c \in columns_by_table[t]} : t \in DOMAIN columns_by_table}

\* C26: a table mapped to an empty column set (DELETE, ALTER, DROP,
\* TRUNCATE) is a key of columns_by_table and is rendered as "<table>: All
\* columns"; a statement with no column entries (SELECT, CREATE) has an
\* empty columns_by_table and no per-table column line; tables_affected is
\* the number of distinct affected tables and columns_affected the number
\* of distinct affected columns over all tables.
C26_AllColumnsKeptApart ==
    (report.made /\ ~report.raised) =>
        LET impact == report.impact
            lines == format_columns(impact)
        IN /\ report.statement_type \in {"DELETE", "ALTER", "DROP", "TRUNCATE"} =>
                 /\ DOMAIN impact.columns_by_table = Range(impact.tables)
                 /\ \A t \in Range(impact.tables) :
                       /\ impact.columns_by_table[t] = {}
                       /\ [table |-> t, shown |-> {AllColumns}] \in lines
           /\ report.statement_type \in {"SELECT", "CREATE"} =>
                 /\ DOMAIN impact.columns_by_table = {}
                 /\ lines = {}
           /\ \A t \in DOMAIN impact.columns_by_table :
                 impact.columns_by_table[t] # {} =>
                     [table |-> t, shown |-> impact.columns_by_table[t]] \in lines
           /\ impact.tables_affected = Cardinality(Range(impact.tables))
           /\ impact.columns_affected = Cardinality(ColumnPairs(impact.columns_by_table))

\* A DELETE over two tables: both are keys with no columns, and both are
\* rendered as all columns.
C26_Witness ==
    /\ report.made /\ ~report.raised
    /\ report.statement_type = "DELETE"
    /\ report.impact.tables_affected = 2
    /\ report.impact.columns_affected = 0
    /\ Cardinality(format_columns(report.impact)) = 2

\* C27: in every outcome that simulate() returns, simulation_successful =
\* true implies that the error field is None, and the report stores the
\* outcome so.
C27_SuccessHasNoError ==
    /\ Returns => (call.result.simulation_successful => call.result.error = None)
    /\ (report.made /\ ~report.raised /\ ~report.dry_run.is_none) =>
          (report.dry_run.d.simulation_successful => report.dry_run.d.error = None)

\* A successful UPDATE: the flag is set, the preview is read afterwards, and
\* no error is recorded.
C27_Witness ==
    /\ Returns /\ call.executed
    /\ call.result.statement_type = "UPDATE"
    /\ call.result.simulation_successful
    /\ call.result.preview.set
    /\ call.result.error = None

\* C28: when a report's dry-run outcome is unsuccessful and carries an
\* error message but no note, the text of format_report holds that error
\* message, for every statement type.
C28_ErrorIsRendered ==
    (/\ report.made /\ ~report.raised /\ ~report.dry_run.is_none
     /\ ~report.dry_run.d.simulation_successful
     /\ report.dry_run.d.error # None
     /\ "note" \notin report.dry_run.keys) =>
        \E i \in 1..Len(format_dry_run(report.dry_run)) :
            format_dry_run(report.dry_run)[i] = <<"Error: ">> \o report.dry_run.d.error

\* What the generators of the providers whose keys are set can answer.
AnswersWithKeys(env) ==
    (IF "anthropic" \in env THEN {generate_with_anthropic(l) : l \in LlmAnswers} ELSE {})
    \cup (IF "openai" \in env THEN {generate_with_openai(l) : l \in LlmAnswers} ELSE {})

\* C29: whenever an API key is configured, generate_rollback dispatches to
\* a generator for the selected provider: the "Unknown LLM provider"
\* failure does not occur, and with an Anthropic or OpenAI key set the
\* rollback is attempted with such a key whatever other keys are set.
C29_ProviderDispatched ==
    (/\ phase = "ready" /\ report.made /\ ~report.raised
     /\ options.include_rollback /\ keys # {}) =>
        /\ report.collaborator.called
        /\ report.rollback_error # <<"Unknown LLM provider: ">> \o provider
        /\ (keys \cap {"anthropic", "openai"} # {}) =>
              report.collaborator.answer \in AnswersWithKeys(keys)

\* C30: a POST /analyze request whose sql is empty or only whitespace is
\* rejected with HTTP 400 and the detail "SQL statement cannot be empty",
\* never with a SQLAnalysisResponse body; a request whose sql does not
\* parse is answered with success = false and an error that starts with
\* "SQL parsing error".
C30_EmptySqlRejected ==
    response.sent =>
        /\ response.sql \in {"empty", "blank"} =>
              /\ response.status = "400"
              /\ response.body # "SQLAnalysisResponse"
              /\ response.error = <<EmptyDetail>>
        /\ response.sql = "malformed" =>
              /\ response.body = "SQLAnalysisResponse"
              /\ ~response.success
              /\ response.error[1] = "SQL parsing error: "

====
